---- MODULE Spec2Model ----
(***************************************************************************)
(* SmartGuard backend: the delegation lifecycle of routes/delegation.js,   *)
(* routes/revoke.js and the delegation listing of routes/wallet.js, over   *)
(* the two in-process Maps and the remote (on-chain) delegation store.     *)
(*                                                                         *)
(* Strings are sequences of one-character strings, so that the template    *)
(* key `${userAddress}-${contractAddress}` and key.startsWith(userAddress) *)
(* are computed as the code computes them.                                 *)
(***************************************************************************)
EXTENDS Integers, Sequences, FiniteSets, TLC

\* ------------------------------------------------------------------ bounds
MaxTicks == 2        \* clock advances per behaviour
MaxAdds == 2         \* addDelegation requests per behaviour
MaxPending == 2      \* suspended handlers of the other routes at a time

\* ------------------------------------------------------- program constants
SecondsPerHour == 3600
StartTime == 100

\* --------------------------------------------------------------- addresses
Empty == << >>
UserLower == <<"a", "a">>
UserChecksum == <<"A", "a">>
ContractLower == <<"b", "b">>
ContractChecksum == <<"B", "b">>
ZeroAddress == <<"0", "0">>
NotAnAddress == <<"z">>
UserUpper == <<"A", "A">>

UserInputs == {UserLower, UserChecksum, Empty}
ContractInputs == {ContractChecksum}
DurationInputs == {1}
DescriptionInputs == {Empty}
TickInputs == {SecondsPerHour}
SkewInputs == {0, 1}

LowerChar(c) ==
    CASE c = "A" -> "a"
      [] c = "B" -> "b"
      [] OTHER -> c

ToLowerCase(s) == [i \in 1..Len(s) |-> LowerChar(s[i])]

\* EIP-55 form of a lower-case address (the hash is a fixed table here)
ChecksumAddress(s) ==
    CASE s = UserLower -> UserChecksum
      [] s = ContractLower -> ContractChecksum
      [] s = <<"0", "a">> -> <<"0", "A">>
      [] OTHER -> s

HexChars == {"0", "a", "b", "A", "B"}

\* viem isAddress (strict): well-formed, and all lower-case or checksummed
isAddress(s) ==
    /\ Len(s) = 2
    /\ \A i \in 1..Len(s) : s[i] \in HexChars
    /\ \/ ToLowerCase(s) = s
       \/ ChecksumAddress(ToLowerCase(s)) = s

Truthy(s) == s # Empty

\* `${userAddress}-${contractAddress}`
KeyOf(userAddress, contractAddress) == userAddress \o <<"-">> \o contractAddress

\* the (user, contractAddr) pair a key stands for: letter case set aside
PairOf(key) == ToLowerCase(key)

startsWith(str, prefix) ==
    /\ Len(prefix) <= Len(str)
    /\ SubSeq(str, 1, Len(prefix)) = prefix

\* ------------------------------------------------------------ a JS Map
\* A Map is the sequence of its entries in insertion order.
MapHas(m, k) == \E i \in 1..Len(m) : m[i].key = k

MapIndex(m, k) == CHOOSE i \in 1..Len(m) : m[i].key = k

MapGet(m, k) == m[MapIndex(m, k)].val

MapSet(m, k, v) ==
    IF MapHas(m, k)
    THEN [m EXCEPT ![MapIndex(m, k)] = [key |-> k, val |-> v]]
    ELSE Append(m, [key |-> k, val |-> v])

MapDelete(m, k) ==
    IF MapHas(m, k)
    THEN SubSeq(m, 1, MapIndex(m, k) - 1) \o SubSeq(m, MapIndex(m, k) + 1, Len(m))
    ELSE m

RECURSIVE SelectSeqBy(_, _)
\* sub-sequence of the indices of s (in order) that are in the set keep
SelectSeqBy(s, keep) ==
    IF s = << >> THEN << >>
    ELSE LET rest == SelectSeqBy(SubSeq(s, 1, Len(s) - 1), keep)
         IN  IF Len(s) \in keep THEN Append(rest, s[Len(s)]) ELSE rest

\* s without its i-th element
RemoveAt(s, i) == SelectSeqBy(s, (1..Len(s)) \ {i})

\* ------------------------------------------------- the remote store
\* The on-chain SmartGuardV2 contract, keyed by 20-byte addresses (letter
\* case is not part of an address).  A record is the Delegation struct of
\* the ABI plus its user.  A submitted transaction is included at once, or
\* it reverts and changes nothing.
Canonical(a) == ChecksumAddress(ToLowerCase(a))

ZeroPlan ==
    [contractAddr |-> ZeroAddress, expiresAt |-> 0, addedAt |-> 0,
     description |-> Empty, isActive |-> FALSE]

ChainHas(ch, u, c) ==
    \E i \in 1..Len(ch) : ch[i].user = Canonical(u) /\ ch[i].contractAddr = Canonical(c)

ChainIndex(ch, u, c) ==
    CHOOSE i \in 1..Len(ch) : ch[i].user = Canonical(u) /\ ch[i].contractAddr = Canonical(c)

\* addDelegation(user, contractAddr, duration, description), mined at time t
ChainAddDelegation(ch, u, c, durationSeconds, description, t) ==
    LET rec == [user |-> Canonical(u), contractAddr |-> Canonical(c),
                expiresAt |-> t + durationSeconds, addedAt |-> t,
                description |-> description, isActive |-> TRUE]
    IN  IF ChainHas(ch, u, c)
        THEN [ch EXCEPT ![ChainIndex(ch, u, c)] = rec]
        ELSE Append(ch, rec)

\* removeDelegation(user, contractAddr): isActive -> false; reverts if absent
ChainRemoveDelegation(ch, u, c) ==
    IF ChainHas(ch, u, c)
    THEN [ch EXCEPT ![ChainIndex(ch, u, c)].isActive = FALSE]
    ELSE ch

\* cleanupExpired(user): the user's records past their expiry are deactivated
ChainCleanupExpired(ch, u, t) ==
    [i \in 1..Len(ch) |->
        IF ch[i].user = Canonical(u) /\ ch[i].expiresAt <= t
        THEN [ch[i] EXCEPT !.isActive = FALSE]
        ELSE ch[i]]

PlanOf(rec) ==
    [contractAddr |-> rec.contractAddr, expiresAt |-> rec.expiresAt,
     addedAt |-> rec.addedAt, description |-> rec.description,
     isActive |-> rec.isActive]

\* getActiveDelegations(user): the user's slots in storage order; a removed
\* slot is returned as stored (isActive = false) or as the zeroed struct
ChainGetActiveDelegations(ch, u, zeroed) ==
    LET mine == SelectSeqBy(ch, {i \in 1..Len(ch) : ch[i].user = Canonical(u)})
    IN  [i \in 1..Len(mine) |->
            IF ~mine[i].isActive /\ zeroed THEN ZeroPlan ELSE PlanOf(mine[i])]

\* the write call reaches the chain: the RPC answers and viem can encode the
\* address arguments
WriteAccepted(up, u, c) == up /\ isAddress(u) /\ isAddress(c)

\* ---------------------------------------------------------------- state
VARIABLES
    now,                  \* Math.floor(Date.now() / 1000)
    ticks,                \* clock advances so far
    smartGuardContract,   \* contractService handle is set
    walletClient,         \* contractService wallet client is set
    rpcUp,                \* the RPC endpoint answers
    delegationsDB,        \* the Map of routes/delegation.js
    revokeDelegationsDB,  \* the Map named delegationsDB of routes/revoke.js
    chain,                \* delegations held by the remote store
    addCall,              \* the POST /api/delegation requests in flight
    revokeCall,           \* the POST /api/revoke request in flight
    listCall,             \* the GET /api/delegation/:userAddress request in flight
    res,                  \* the response being sent (res.json), until delivered
    obs,                  \* history: how the response being sent came about
    adds,                 \* history: the records POST /api/delegation stored
    revoked,              \* history: pairs revoked since their last add
    dcaPlansDB,           \* the Map of routes/dca.js
    dcaIdCounter,         \* the next plan id of routes/dca.js
    pending,              \* the suspended handlers of the other routes
    knownThreats          \* the threat registry of the remote store

vars == <<now, ticks, smartGuardContract, walletClient, rpcUp, delegationsDB,
          revokeDelegationsDB, chain, addCall, revokeCall, listCall,
          res, obs, adds, revoked, dcaPlansDB, dcaIdCounter, pending,
          knownThreats>>

Idle == [pc |-> "idle"]
NoResponse == [route |-> "none"]
NoDescription == <<"No description">>

Init ==
    /\ now = StartTime
    /\ ticks = 0
    /\ smartGuardContract = FALSE
    /\ walletClient = FALSE
    /\ rpcUp \in BOOLEAN
    /\ delegationsDB = << >>
    /\ revokeDelegationsDB = << >>
    /\ chain = << >>
    /\ addCall = << >>
    /\ revokeCall = Idle
    /\ listCall = Idle
    /\ res = NoResponse
    /\ obs = NoResponse
    /\ adds = << >>
    /\ revoked = {}
    /\ dcaPlansDB = << >>
    /\ dcaIdCounter = 1
    /\ pending = << >>
    /\ knownThreats = {}

\* ---------------------------------------------------------- environment
\* the clock moves on
Tick(d) ==
    /\ res = NoResponse
    /\ ticks < MaxTicks
    /\ now' = now + d
    /\ ticks' = ticks + 1
    /\ UNCHANGED <<smartGuardContract, walletClient, rpcUp, delegationsDB,
                   revokeDelegationsDB, chain, addCall, revokeCall,
                   listCall, res, obs, adds, revoked>>
    /\ UNCHANGED <<dcaPlansDB, dcaIdCounter, pending, knownThreats>>

\* initializeWalletAndContract completes with a private key configured
SetContracts ==
    /\ res = NoResponse
    /\ ~smartGuardContract
    /\ smartGuardContract' = TRUE
    /\ walletClient' = TRUE
    /\ UNCHANGED <<now, ticks, rpcUp, delegationsDB, revokeDelegationsDB, chain,
                   addCall, revokeCall, listCall, res, obs, adds,
                   revoked>>
    /\ UNCHANGED <<dcaPlansDB, dcaIdCounter, pending, knownThreats>>

\* the RPC endpoint stops or resumes answering
RpcToggle ==
    /\ res = NoResponse
    /\ rpcUp' = ~rpcUp
    /\ UNCHANGED <<now, ticks, smartGuardContract, walletClient, delegationsDB,
                   revokeDelegationsDB, chain, addCall, revokeCall,
                   listCall, res, obs, adds, revoked>>
    /\ UNCHANGED <<dcaPlansDB, dcaIdCounter, pending, knownThreats>>

\* the response being sent reaches the caller
Deliver ==
    /\ res # NoResponse
    /\ res' = NoResponse
    /\ obs' = NoResponse
    /\ UNCHANGED <<now, ticks, smartGuardContract, walletClient, rpcUp,
                   delegationsDB, revokeDelegationsDB, chain, addCall,
                   revokeCall, listCall, adds, revoked>>
    /\ UNCHANGED <<dcaPlansDB, dcaIdCounter, pending, knownThreats>>

\* ------------------------ frontend: components/delegation/DelegationManager
\* The page writes to the same contract from the browser wallet and never
\* calls the backend's POST routes: the backend sees these writes only in
\* what its remote reads return.
BrowserWalletInputs == {UserChecksum}
BrowserContractInputs == {ContractChecksum, NotAnAddress}
BrowserHoursInputs == {1}

\* newDelegation.description || `Delegation to ${contract.slice(0, 8)}...`
BrowserDescription == <<"Delegation to">>

\* handleAddDelegation: writeContract addDelegation(walletAddress, contract,
\* hours * 3600, description) is included
HandleAddDelegation(walletAddress, contract, expiresInHours) ==
    /\ res = NoResponse
    /\ Truthy(contract) /\ Truthy(walletAddress)
    /\ chain' = IF isAddress(walletAddress) /\ isAddress(contract)
                THEN ChainAddDelegation(chain, walletAddress, contract,
                                        expiresInHours * SecondsPerHour,
                                        BrowserDescription, now)
                ELSE chain
    /\ UNCHANGED <<now, ticks, smartGuardContract, walletClient, rpcUp,
                   delegationsDB, revokeDelegationsDB, addCall, revokeCall,
                   listCall, res, obs, adds, revoked>>
    /\ UNCHANGED <<dcaPlansDB, dcaIdCounter, pending, knownThreats>>

\* handleRealRevoke: writeContract removeDelegation(walletAddress,
\* contractAddress) is included
HandleRealRevoke(walletAddress, contractAddress) ==
    /\ res = NoResponse
    /\ Truthy(walletAddress) /\ Truthy(contractAddress)
    /\ chain' = IF isAddress(walletAddress) /\ isAddress(contractAddress)
                THEN ChainRemoveDelegation(chain, walletAddress, contractAddress)
                ELSE chain
    /\ UNCHANGED <<now, ticks, smartGuardContract, walletClient, rpcUp,
                   delegationsDB, revokeDelegationsDB, addCall, revokeCall,
                   listCall, res, obs, adds, revoked>>
    /\ UNCHANGED <<dcaPlansDB, dcaIdCounter, pending, knownThreats>>

\* handleCleanupExpired: writeContract cleanupExpired(walletAddress) is
\* included
HandleCleanupExpired(walletAddress) ==
    /\ res = NoResponse
    /\ chain' = IF isAddress(walletAddress)
                THEN ChainCleanupExpired(chain, walletAddress, now)
                ELSE chain
    /\ UNCHANGED <<now, ticks, smartGuardContract, walletClient, rpcUp,
                   delegationsDB, revokeDelegationsDB, addCall, revokeCall,
                   listCall, res, obs, adds, revoked>>
    /\ UNCHANGED <<dcaPlansDB, dcaIdCounter, pending, knownThreats>>

\* ------------------------------------------------- POST /api/delegation
StoredRecord(userAddress, contractAddress, expiresAt, description, addedAt) ==
    [userAddress |-> userAddress, contractAddress |-> contractAddress,
     expiresAt |-> expiresAt,
     description |-> IF Truthy(description) THEN description ELSE NoDescription,
     addedAt |-> addedAt, isActive |-> TRUE]

AddResponse(contractAddress, expiresAt, duration, t) ==
    [route |-> "add", status |-> 200, success |-> TRUE,
     delegation |-> [contractAddr |-> contractAddress, expiresAt |-> expiresAt,
                     expiresIn |-> [text |-> "h", h |-> duration, m |-> 0],
                     status |-> "Active", addedAt |-> t]]

BadRequest(route) == [route |-> route, status |-> 400, success |-> FALSE]

\* the requests in flight for key are marked as overtaken by a revoke
Raced(calls, key) ==
    [i \in 1..Len(calls) |->
        IF calls[i].key = key THEN [calls[i] EXCEPT !.raced = TRUE]
        ELSE calls[i]]

AddInFlight(key) == \E i \in 1..Len(addCall) : addCall[i].key = key

AddObs(call, remote) ==
    [route |-> "add", userAddress |-> call.userAddress,
     contractAddress |-> call.contractAddress, key |-> call.key,
     duration |-> call.duration, remote |-> remote, raced |-> call.raced,
     writes |-> call.writes, n |-> call.n]

\* variant: the local write is left for after the remote write
LocalWriteDeferred(db, key, rec) == db

\* lines 95-103: delegationsDB.set(key, {...}), ahead of the remote write
LocalWrite(db, key, rec) == MapSet(db, key, rec)

\* variant: the catch block rolls the local write back
AfterContractErrorRollback(db, key) == MapDelete(db, key)

\* the catch block around the remote write: it logs, nothing else
AfterContractError(db, key) == db

\* variant: the catch block submits the failed write once more
RetryWriteOnce(call) == call.writes < 2

\* Whether a failed remote write is submitted again within the call: the
\* catch blocks (add: lines 126-129, revoke: lines 41-44) go on to the
\* response, there is no loop around the write.
RetryWrite(call) == FALSE

\* The handler reads the clock three times: line 92 (expiresAt), line 101
\* (addedAt of the stored record) and line 142 (addedAt of the response).
\* skew is the time passed between the first two reads, skew2 between the
\* last two when the handler answers without awaiting anything.  Requests
\* are accepted while earlier ones await their remote write.
AddStart(userAddress, contractAddress, duration, description, skew, skew2) ==
    /\ res = NoResponse
    /\ Len(adds) < MaxAdds
    /\ ticks + skew + skew2 <= MaxTicks
    /\ IF ~Truthy(userAddress) \/ ~Truthy(contractAddress)
       THEN /\ skew = 0 /\ skew2 = 0
            /\ res' = BadRequest("add")
            /\ obs' = [route |-> "add", userAddress |-> userAddress,
                        contractAddress |-> contractAddress,
                        key |-> KeyOf(userAddress, contractAddress),
                        duration |-> duration, remote |-> "none",
                        raced |-> FALSE, writes |-> 0, n |-> 0]
            /\ UNCHANGED <<now, ticks, delegationsDB, addCall, revokeCall,
                           listCall, adds, revoked>>
       ELSE LET expiresAt == now + duration * SecondsPerHour
                key == KeyOf(userAddress, contractAddress)
                rec == StoredRecord(userAddress, contractAddress, expiresAt,
                                    description, now + skew)
                remote == smartGuardContract /\ walletClient
                call == [pc |-> "write", userAddress |-> userAddress,
                         contractAddress |-> contractAddress,
                         key |-> key, duration |-> duration,
                         description |-> description,
                         expiresAt |-> expiresAt, included |-> FALSE,
                         raced |-> FALSE, n |-> Len(adds) + 1,
                         writes |-> IF remote THEN 1 ELSE 0]
            IN  /\ remote => skew2 = 0
                /\ now' = now + skew + skew2
                /\ ticks' = ticks + skew + skew2
                /\ delegationsDB' = LocalWrite(delegationsDB, key, rec)
                /\ adds' = Append(adds, rec)
                /\ revoked' = revoked \ {PairOf(key)}
                /\ revokeCall' = IF revokeCall.pc # "idle" /\ revokeCall.key = key
                                 THEN [revokeCall EXCEPT !.duringAdd = FALSE]
                                 ELSE revokeCall
                /\ listCall' = IF listCall.pc # "idle"
                               THEN [listCall EXCEPT !.rev = @ \ {PairOf(key)}]
                               ELSE listCall
                /\ IF remote
                   THEN /\ addCall' = Append(addCall, call)
                        /\ UNCHANGED <<res, obs>>
                   ELSE /\ UNCHANGED addCall
                        /\ res' = AddResponse(contractAddress, expiresAt,
                                              duration, now + skew + skew2)
                        /\ obs' = AddObs(call, "skipped")
    /\ UNCHANGED <<smartGuardContract, walletClient, rpcUp, revokeDelegationsDB,
                   chain>>
    /\ UNCHANGED <<dcaPlansDB, dcaIdCounter, pending, knownThreats>>

\* smartGuardContract.write.addDelegation settles
\* i: which of the requests in flight
AddWriteReturns(i) ==
    /\ res = NoResponse
    /\ addCall[i].pc = "write"
    /\ LET call == addCall[i]
       IN  IF WriteAccepted(rpcUp, call.userAddress, call.contractAddress)
           THEN /\ \E included \in BOOLEAN :
                     /\ chain' = IF included
                                 THEN ChainAddDelegation(chain, call.userAddress,
                                          call.contractAddress,
                                          call.duration * SecondsPerHour,
                                          call.description, now)
                                 ELSE chain
                     /\ addCall' = [addCall EXCEPT ![i].pc = "receipt",
                                                   ![i].included = included]
                /\ UNCHANGED <<res, obs, delegationsDB>>
           ELSE IF RetryWrite(call)
           THEN /\ addCall' = [addCall EXCEPT ![i].writes = @ + 1]
                /\ UNCHANGED <<res, obs, delegationsDB, chain>>
           ELSE /\ delegationsDB' = AfterContractError(delegationsDB, call.key)
                /\ res' = AddResponse(call.contractAddress, call.expiresAt,
                                      call.duration, now)
                /\ obs' = AddObs(call, "failed")
                /\ addCall' = RemoveAt(addCall, i)
                /\ UNCHANGED chain
    /\ UNCHANGED <<now, ticks, smartGuardContract, walletClient, rpcUp,
                   revokeDelegationsDB, revokeCall, listCall, adds, revoked>>
    /\ UNCHANGED <<dcaPlansDB, dcaIdCounter, pending, knownThreats>>

\* publicClient.waitForTransactionReceipt settles: with the receipt (whose
\* status is not read), or the RPC fails while waiting
AddReceiptReturns(i) ==
    /\ res = NoResponse
    /\ addCall[i].pc = "receipt"
    /\ LET call == addCall[i]
       IN  IF ~rpcUp /\ RetryWrite(call)
           THEN /\ addCall' = [addCall EXCEPT ![i].pc = "write",
                                              ![i].writes = @ + 1]
                /\ UNCHANGED <<res, obs, delegationsDB>>
           ELSE /\ IF rpcUp
                   THEN /\ obs' = AddObs(call, IF call.included THEN "confirmed"
                                               ELSE "reverted")
                        /\ UNCHANGED delegationsDB
                   ELSE /\ obs' = AddObs(call, "failed")
                        /\ delegationsDB' = AfterContractError(delegationsDB,
                                                               call.key)
                /\ res' = AddResponse(call.contractAddress, call.expiresAt,
                                      call.duration, now)
                /\ addCall' = RemoveAt(addCall, i)
    /\ UNCHANGED <<now, ticks, smartGuardContract, walletClient, rpcUp,
                   revokeDelegationsDB, chain, revokeCall, listCall, adds,
                   revoked>>
    /\ UNCHANGED <<dcaPlansDB, dcaIdCounter, pending, knownThreats>>

\* ----------------------------------------------------- POST /api/revoke
RevokeResponse(userAddress, contractAddress, t, contractRevokeSuccess, note) ==
    [route |-> "revoke", status |-> 200, success |-> TRUE,
     user |-> userAddress, contract |-> contractAddress, timestamp |-> t,
     contractRevokeSuccess |-> contractRevokeSuccess, note |-> note]

RevokeObs(call) ==
    [route |-> "revoke", userAddress |-> call.userAddress,
     contractAddress |-> call.contractAddress, key |-> call.key,
     hadDelegation |-> call.hadDelegation,
     again |-> call.again, duringAdd |-> call.duringAdd,
     writes |-> call.writes]

\* variant: a revoke of an absent key leaves a deactivated entry behind
RevokeLocalTombstone(db, key) ==
    IF MapHas(db, key) THEN MapDelete(db, key)
    ELSE MapSet(db, key, [isActive |-> FALSE])

\* lines 25-29: the entry of the Map of routes/revoke.js is removed
RevokeLocal(db, key) == IF MapHas(db, key) THEN MapDelete(db, key) ELSE db

RevokeStart(userAddress, contractAddress) ==
    /\ res = NoResponse
    /\ revokeCall.pc = "idle"
    /\ IF ~Truthy(userAddress) \/ ~Truthy(contractAddress)
       THEN /\ res' = BadRequest("revoke")
            /\ obs' = [route |-> "revoke", again |-> FALSE, duringAdd |-> FALSE,
                        writes |-> 0]
            /\ UNCHANGED <<revokeDelegationsDB, revokeCall, addCall, revoked>>
       ELSE LET key == KeyOf(userAddress, contractAddress)
                call == [pc |-> "write", userAddress |-> userAddress,
                         contractAddress |-> contractAddress, key |-> key,
                         hadDelegation |-> MapHas(revokeDelegationsDB, key),
                         again |-> PairOf(key) \in revoked,
                         duringAdd |-> AddInFlight(key),
                         writes |-> IF smartGuardContract THEN 1 ELSE 0]
            IN  /\ revokeDelegationsDB' = RevokeLocal(revokeDelegationsDB, key)
                /\ IF smartGuardContract
                   THEN /\ revokeCall' = call
                        /\ UNCHANGED <<res, obs, addCall, revoked>>
                   ELSE /\ res' = RevokeResponse(userAddress, contractAddress, now,
                                                 FALSE, "Contract not available")
                        /\ obs' = RevokeObs(call)
                        /\ revoked' = revoked \cup {PairOf(key)}
                        /\ addCall' = IF call.duringAdd
                                      THEN Raced(addCall, key)
                                      ELSE addCall
                        /\ UNCHANGED revokeCall
    /\ UNCHANGED <<now, ticks, smartGuardContract, walletClient, rpcUp,
                   delegationsDB, chain, listCall, adds>>
    /\ UNCHANGED <<dcaPlansDB, dcaIdCounter, pending, knownThreats>>

\* smartGuardContract.write.removeDelegation settles; no receipt is awaited
RevokeWriteReturns ==
    /\ res = NoResponse
    /\ revokeCall.pc = "write"
    /\ IF /\ ~WriteAccepted(rpcUp, revokeCall.userAddress,
                            revokeCall.contractAddress)
          /\ RetryWrite(revokeCall)
       THEN /\ revokeCall' = [revokeCall EXCEPT !.writes = @ + 1]
            /\ UNCHANGED <<chain, res, obs, revoked, addCall>>
       ELSE
             /\ IF WriteAccepted(rpcUp, revokeCall.userAddress,
                                 revokeCall.contractAddress)
                THEN /\ \E included \in BOOLEAN :
                          chain' = IF included
                                   THEN ChainRemoveDelegation(chain,
                                            revokeCall.userAddress,
                                            revokeCall.contractAddress)
                                   ELSE chain
                     /\ res' = RevokeResponse(revokeCall.userAddress,
                                              revokeCall.contractAddress, now, TRUE,
                                              "Contract revocation executed")
                ELSE /\ UNCHANGED chain
                     /\ res' = RevokeResponse(revokeCall.userAddress,
                                              revokeCall.contractAddress, now, FALSE,
                                              "Contract revocation failed: ")
             /\ obs' = RevokeObs(revokeCall)
             /\ revoked' = revoked \cup {PairOf(revokeCall.key)}
             /\ addCall' = IF revokeCall.duringAdd
                           THEN Raced(addCall, revokeCall.key)
                           ELSE addCall
             /\ revokeCall' = Idle
    /\ UNCHANGED <<now, ticks, smartGuardContract, walletClient, rpcUp,
                   delegationsDB, revokeDelegationsDB, listCall, adds>>
    /\ UNCHANGED <<dcaPlansDB, dcaIdCounter, pending, knownThreats>>

\* ---------------------------------- GET /api/delegation/:userAddress
Expired == [text |-> "Expired", h |-> 0, m |-> 0]

\* line 189
RemoteStatus(expiresIn) == IF expiresIn > 0 THEN "Active" ELSE "Expired"

\* variant: the entry is still Active at now = expiresAt
MemoryStatusInclusive(expiresIn) == IF expiresIn >= 0 THEN "Active" ELSE "Expired"

\* line 214
MemoryStatus(expiresIn) == IF expiresIn > 0 THEN "Active" ELSE "Expired"

RemoteView(plan, t) ==
    LET expiresIn == plan.expiresAt - t
    IN  [contractAddr |-> plan.contractAddr,
         expiresAt |-> plan.expiresAt,
         expiresIn |-> IF expiresIn > 0
                       THEN [text |-> "h m", h |-> expiresIn \div SecondsPerHour,
                             m |-> (expiresIn % SecondsPerHour) \div 60]
                       ELSE Expired,
         status |-> RemoteStatus(expiresIn),
         description |-> plan.description,
         addedAt |-> plan.addedAt,
         isActive |-> plan.isActive]

NotZeroAddress(d) == d.contractAddr # ZeroAddress

\* contractPlans.map(...).filter(...)
RemoteViews(contractPlans, t) ==
    SelectSeq([i \in 1..Len(contractPlans) |-> RemoteView(contractPlans[i], t)],
              NotZeroAddress)

MemoryView(delegation, t) ==
    LET expiresIn == delegation.expiresAt - t
    IN  [contractAddr |-> delegation.contractAddress,
         expiresAt |-> delegation.expiresAt,
         expiresIn |-> IF expiresIn > 0
                       THEN [text |-> "h", h |-> expiresIn \div SecondsPerHour,
                             m |-> 0]
                       ELSE Expired,
         status |-> MemoryStatus(expiresIn),
         description |-> delegation.description,
         addedAt |-> delegation.addedAt]

\* line 208
MemoryMatch(key, delegation, userAddress) ==
    startsWith(key, userAddress) /\ delegation.isActive

\* the for-of loop over delegationsDB
MemoryViews(db, userAddress, t) ==
    LET hits == SelectSeqBy(db, {i \in 1..Len(db) :
                                  MemoryMatch(db[i].key, db[i].val, userAddress)})
    IN  [i \in 1..Len(hits) |-> MemoryView(hits[i].val, t)]

\* line 205
FallbackToMemory(delegations) == Len(delegations) = 0

CountStatus(delegations, status) ==
    Cardinality({i \in 1..Len(delegations) : delegations[i].status = status})

ListResponse(fromContract, db, userAddress, t) ==
    LET memory == FallbackToMemory(fromContract)
        delegations == IF memory THEN MemoryViews(db, userAddress, t)
                       ELSE fromContract
    IN  [route |-> "list", status |-> 200, success |-> TRUE,
         delegations |-> delegations,
         source |-> IF memory THEN "memory" ELSE "contract",
         total |-> Len(delegations),
         active |-> CountStatus(delegations, "Active"),
         expired |-> CountStatus(delegations, "Expired")]

ListObs(userAddress, remoteOk, contractPlans, rev) ==
    [route |-> "read", userAddress |-> userAddress, remoteOk |-> remoteOk,
     contractPlans |-> contractPlans, rev |-> rev]

ListStart(userAddress) ==
    /\ res = NoResponse
    /\ listCall.pc = "idle"
    /\ IF ~isAddress(userAddress)
       THEN /\ res' = BadRequest("list")
            /\ obs' = [route |-> "read", remoteOk |-> FALSE, rev |-> {}]
            /\ UNCHANGED listCall
       ELSE IF smartGuardContract
       THEN /\ listCall' = [pc |-> "read", userAddress |-> userAddress,
                            rev |-> revoked]
            /\ UNCHANGED <<res, obs>>
       ELSE /\ res' = ListResponse(<< >>, delegationsDB, userAddress, now)
            /\ obs' = ListObs(userAddress, FALSE, << >>, revoked)
            /\ UNCHANGED listCall
    /\ UNCHANGED <<now, ticks, smartGuardContract, walletClient, rpcUp,
                   delegationsDB, revokeDelegationsDB, chain, addCall,
                   revokeCall, adds, revoked>>
    /\ UNCHANGED <<dcaPlansDB, dcaIdCounter, pending, knownThreats>>

\* smartGuardContract.read.getActiveDelegations settles
ListReadReturns ==
    /\ res = NoResponse
    /\ listCall.pc = "read"
    /\ IF rpcUp
       THEN \E zeroed \in BOOLEAN :
              LET contractPlans ==
                      ChainGetActiveDelegations(chain, listCall.userAddress, zeroed)
              IN  /\ res' = ListResponse(RemoteViews(contractPlans, now),
                                         delegationsDB, listCall.userAddress, now)
                  /\ obs' = ListObs(listCall.userAddress, TRUE, contractPlans,
                                    listCall.rev)
       ELSE /\ res' = ListResponse(<< >>, delegationsDB, listCall.userAddress, now)
            /\ obs' = ListObs(listCall.userAddress, FALSE, << >>, listCall.rev)
    /\ listCall' = Idle
    /\ UNCHANGED <<now, ticks, smartGuardContract, walletClient, rpcUp,
                   delegationsDB, revokeDelegationsDB, chain, addCall,
                   revokeCall, adds, revoked>>
    /\ UNCHANGED <<dcaPlansDB, dcaIdCounter, pending, knownThreats>>

\* ------------------------------ GET /api/wallet/:address/delegations
\* wallet.js line 165
WalletStatus(expiresIn) == IF expiresIn > 0 THEN "Active" ELSE "Expired"

WalletView(delegation, t) ==
    LET expiresIn == delegation.expiresAt - t
    IN  [contractAddr |-> delegation.contractAddr,
         expiresAt |-> delegation.expiresAt,
         expiresIn |-> IF expiresIn > 0
                       THEN [text |-> "h m", h |-> expiresIn \div SecondsPerHour,
                             m |-> (expiresIn % SecondsPerHour) \div 60]
                       ELSE Expired,
         status |-> WalletStatus(expiresIn),
         description |-> IF Truthy(delegation.description)
                         THEN delegation.description ELSE NoDescription,
         addedAt |-> delegation.addedAt]

\* realDelegations.map(...).filter(...)
WalletViews(realDelegations, t) ==
    SelectSeq([i \in 1..Len(realDelegations) |-> WalletView(realDelegations[i], t)],
              NotZeroAddress)

WalletResponse(delegations, source) ==
    [route |-> "wallet", status |-> 200, success |-> TRUE,
     delegations |-> delegations,
     total |-> Len(delegations),
     active |-> CountStatus(delegations, "Active"),
     expired |-> CountStatus(delegations, "Expired"),
     note |-> IF source = "contract" THEN "Found delegations from contract"
              ELSE "Contract call failed: ",
     source |-> source]

\* lines 135-145: the answer without a contract handle has no source field
WalletNoContract ==
    [route |-> "wallet", status |-> 200, success |-> TRUE,
     delegations |-> << >>, total |-> 0, active |-> 0, expired |-> 0,
     note |-> "Contract not available - please wait for initialization"]

\* the handler up to its await of the remote read (line 149)
WalletStart(address) ==
    /\ res = NoResponse
    /\ IF ~isAddress(address)
       THEN /\ res' = BadRequest("wallet")
            /\ obs' = [route |-> "read", remoteOk |-> FALSE, rev |-> {}]
            /\ UNCHANGED pending
       ELSE IF ~smartGuardContract
       THEN /\ res' = WalletNoContract
            /\ obs' = ListObs(address, FALSE, << >>, {})
            /\ UNCHANGED pending
       ELSE /\ Len(pending) < MaxPending
            /\ pending' = Append(pending, [route |-> "wallet", pc |-> "read",
                                           address |-> address])
            /\ UNCHANGED <<res, obs>>
    /\ UNCHANGED <<now, ticks, smartGuardContract, walletClient, rpcUp,
                   delegationsDB, revokeDelegationsDB, chain, addCall,
                   revokeCall, listCall, adds, revoked>>
    /\ UNCHANGED <<dcaPlansDB, dcaIdCounter, knownThreats>>

\* smartGuardContract.read.getActiveDelegations settles; the clock is read
\* after it (line 155)
WalletReadReturns(k) ==
    /\ res = NoResponse
    /\ pending[k].route = "wallet"
    /\ LET address == pending[k].address
       IN  IF rpcUp
           THEN \E zeroed \in BOOLEAN :
                  LET realDelegations ==
                          ChainGetActiveDelegations(chain, address, zeroed)
                  IN  /\ res' = WalletResponse(WalletViews(realDelegations, now),
                                               "contract")
                      /\ obs' = ListObs(address, TRUE, realDelegations, {})
           ELSE /\ res' = WalletResponse(<< >>, "error")
                /\ obs' = ListObs(address, FALSE, << >>, {})
    /\ pending' = RemoveAt(pending, k)
    /\ UNCHANGED <<now, ticks, smartGuardContract, walletClient, rpcUp,
                   delegationsDB, revokeDelegationsDB, chain, addCall,
                   revokeCall, listCall, adds, revoked>>
    /\ UNCHANGED <<dcaPlansDB, dcaIdCounter, knownThreats>>

\* ------------------------------------------------------------ behaviours
ListInputs == {UserLower, UserChecksum, UserUpper}
RevokeUserInputs == {UserLower, Empty}
WalletInputs == {UserChecksum, UserUpper}

Next ==
    \/ \E d \in TickInputs : Tick(d)
    \/ SetContracts
    \/ RpcToggle
    \/ Deliver
    \/ \E u \in UserInputs, c \in ContractInputs, d \in DurationInputs,
          t \in DescriptionInputs, k \in SkewInputs, k2 \in SkewInputs :
              AddStart(u, c, d, t, k, k2)
    \/ \E i \in 1..Len(addCall) : AddWriteReturns(i)
    \/ \E i \in 1..Len(addCall) : AddReceiptReturns(i)
    \/ \E u \in RevokeUserInputs, c \in ContractInputs : RevokeStart(u, c)
    \/ RevokeWriteReturns
    \/ \E u \in ListInputs : ListStart(u)
    \/ ListReadReturns
    \/ \E w \in BrowserWalletInputs, c \in BrowserContractInputs,
          h \in BrowserHoursInputs : HandleAddDelegation(w, c, h)
    \/ \E w \in BrowserWalletInputs, c \in BrowserContractInputs :
          HandleRealRevoke(w, c)
    \/ \E w \in BrowserWalletInputs : HandleCleanupExpired(w)

Spec == Init /\ [][Next]_vars

\* --------------------------------------------------------------- claims
\* a listDelegations response is being sent
ListSent == res.route = "list" /\ res.status = 200

\* the last record POST /api/delegation stored for the pair of key
AddedPair(key) ==
    \E i \in 1..Len(adds) :
        PairOf(KeyOf(adds[i].userAddress, adds[i].contractAddress)) = PairOf(key)

LastAdd(key) ==
    LET hits == {i \in 1..Len(adds) :
                    PairOf(KeyOf(adds[i].userAddress, adds[i].contractAddress))
                        = PairOf(key)}
    IN  adds[CHOOSE i \in hits : \A j \in hits : j <= i]

ViewsOf(delegations, contractAddress) ==
    {i \in 1..Len(delegations) : delegations[i].contractAddr = contractAddress}

\* C1: with the remote store down, listDelegations(user) after
\* addDelegation(user, contract) returns one Active record for that
\* contract, and after a subsequent revokeDelegation(user, contract) it
\* returns no record for it.
C1_AddListRevokeList ==
    (ListSent /\ ~obs.remoteOk) =>
        \A c \in ContractInputs :
            LET key == KeyOf(obs.userAddress, c)
                mine == ViewsOf(res.delegations, c)
            IN  /\ PairOf(key) \in obs.rev => mine = {}
                /\ ( /\ PairOf(key) \notin obs.rev
                     /\ AddedPair(key)
                     /\ LastAdd(key).userAddress = obs.userAddress
                     /\ LastAdd(key).contractAddress = c
                     /\ now < LastAdd(key).expiresAt )
                   => /\ Cardinality(mine) = 1
                      /\ \A i \in mine : res.delegations[i].status = "Active"

\* the isActive flag of the local and of the remote record of a call's key
LocalActive(key) == MapHas(delegationsDB, key) /\ MapGet(delegationsDB, key).isActive

ChainActive(userAddress, contractAddress) ==
    /\ ChainHas(chain, userAddress, contractAddress)
    /\ chain[ChainIndex(chain, userAddress, contractAddress)].isActive

\* an addDelegation and a revokeDelegation of the same key, the revoke
\* issued while the add was in flight, have both returned
RaceOver ==
    \/ /\ res.route = "add" /\ res.status = 200 /\ obs.raced
       /\ revokeCall.pc = "idle"
    \/ /\ res.route = "revoke" /\ res.status = 200 /\ obs.duringAdd
       /\ ~AddInFlight(obs.key)

\* C2: once a revokeDelegation issued during an addDelegation of the same
\* key and that addDelegation have both returned, no delegation of the key
\* is active, in the local store or in the remote store.
C2_NoGhostAfterRace ==
    RaceOver => /\ ~LocalActive(obs.key)
                /\ ~ChainActive(obs.userAddress, obs.contractAddress)

\* the remote result without its zero-address placeholders
NonZeroPlans(contractPlans) ==
    SelectSeqBy(contractPlans, {i \in 1..Len(contractPlans) :
                                   contractPlans[i].contractAddr # ZeroAddress})

SameEntries(delegations, plans) ==
    /\ Len(delegations) = Len(plans)
    /\ \A i \in 1..Len(plans) :
          /\ delegations[i].contractAddr = plans[i].contractAddr
          /\ delegations[i].expiresAt = plans[i].expiresAt
          /\ delegations[i].addedAt = plans[i].addedAt

\* the stored records a scan for userAddress visits and keeps
StoredFor(userAddress) ==
    SelectSeqBy(delegationsDB, {i \in 1..Len(delegationsDB) :
        /\ startsWith(delegationsDB[i].key, userAddress)
        /\ delegationsDB[i].val.isActive})

\* C3: when the remote read succeeds the returned list is the remote
\* result only, also when that result is empty.
C3_RemoteResultOnly ==
    (ListSent /\ obs.remoteOk) =>
        SameEntries(res.delegations, NonZeroPlans(obs.contractPlans))

\* C4: every view returned by listDelegations has status Active exactly
\* when its underlying record has isActive = true and now < expiresAt, and
\* Expired otherwise.
C4_StatusDerived ==
    (res.route \in {"list", "wallet"} /\ res.status = 200) =>
        LET under == IF res.route = "wallet" \/ res.source = "contract"
                     THEN NonZeroPlans(obs.contractPlans)
                     ELSE [i \in 1..Len(StoredFor(obs.userAddress)) |->
                              StoredFor(obs.userAddress)[i].val]
        IN  /\ Len(res.delegations) = Len(under)
            /\ \A i \in 1..Len(under) :
                  res.delegations[i].status =
                      IF under[i].isActive /\ now < under[i].expiresAt
                      THEN "Active" ELSE "Expired"

\* the records POST /api/delegation stored under userAddress
AddsOf(userAddress) ==
    {i \in 1..Len(adds) : adds[i].userAddress = userAddress}

\* C5: with the remote store down, a list after one addDelegation of the
\* user returns exactly that entry, Active while now < expiresAt and
\* Expired from expiresAt on, and the stored record is the one the add
\* wrote, isActive still true.
C5_ExpiryIsDerived ==
    (ListSent /\ ~obs.remoteOk /\ Cardinality(AddsOf(obs.userAddress)) = 1) =>
        LET a == adds[CHOOSE i \in AddsOf(obs.userAddress) : TRUE]
            key == KeyOf(a.userAddress, a.contractAddress)
        IN  /\ Len(res.delegations) = 1
            /\ res.delegations[1].contractAddr = a.contractAddress
            /\ res.delegations[1].expiresAt = a.expiresAt
            /\ res.delegations[1].addedAt = a.addedAt
            /\ res.delegations[1].status =
                   IF now < a.expiresAt THEN "Active" ELSE "Expired"
            /\ MapHas(delegationsDB, key)
            /\ MapGet(delegationsDB, key) = a
            /\ a.isActive

\* time has passed expiresAt: the one entry is listed as Expired
C5_Witness ==
    /\ ListSent /\ ~obs.remoteOk
    /\ Cardinality(AddsOf(obs.userAddress)) = 1
    /\ Len(res.delegations) = 1
    /\ res.delegations[1].status = "Expired"
    /\ now > res.delegations[1].expiresAt
    /\ StoredFor(obs.userAddress)[1].val.isActive

\* the record now stored under the key of an add request: the one the
\* request wrote, or the one a later add of the same key has put in its
\* place (the Map holds one record per key)
RecordOf(call) ==
    \E j \in call.n..Len(adds) :
        /\ KeyOf(adds[j].userAddress, adds[j].contractAddress) = call.key
        /\ MapGet(delegationsDB, call.key) = adds[j]

\* C6: while the remote write of an addDelegation call is being attempted
\* or awaited, the record of the call (or the one a later add of the same
\* key replaced it with) is in the local store, active, and a scan of the
\* local store for the user returns it.
C6_LocalBeforeRemote ==
    \A k \in 1..Len(addCall) :
        LET call == addCall[k]
        IN  /\ MapHas(delegationsDB, call.key)
            /\ RecordOf(call)
            /\ MapGet(delegationsDB, call.key).isActive
            /\ \E i \in 1..Len(MemoryViews(delegationsDB, call.userAddress, now)) :
                  LET v == MemoryViews(delegationsDB, call.userAddress, now)[i]
                  IN  /\ v.contractAddr = call.contractAddress
                      /\ v.expiresAt = MapGet(delegationsDB, call.key).expiresAt

\* a list started after the add is answered from the local store, with
\* the record of the add, while the remote write is still outstanding
C6_Witness ==
    /\ Len(addCall) = 1 /\ addCall[1].pc = "write"
    /\ ListSent /\ res.source = "memory"
    /\ obs.userAddress = addCall[1].userAddress
    /\ \E i \in 1..Len(res.delegations) :
          /\ res.delegations[i].contractAddr = addCall[1].contractAddress
          /\ res.delegations[i].expiresAt = addCall[1].expiresAt

\* C7: when the remote write of addDelegation fails, the call answers
\* success and the record it wrote (or the one a later add of the same key
\* replaced it with) is still in the local store.
C7_RemoteFailureKeepsLocal ==
    (res.route = "add" /\ res.status # 400 /\ obs.remote \in {"failed", "reverted"}) =>
        /\ res.status = 200
        /\ res.success
        /\ MapHas(delegationsDB, obs.key)
        /\ RecordOf(obs)
        /\ MapGet(delegationsDB, obs.key).isActive

C7_Witness ==
    /\ res.route = "add" /\ res.status = 200
    /\ obs.remote = "failed"
    /\ MapHas(delegationsDB, obs.key)

\* a revokeDelegation request is accepted in this step
RevokeBegins ==
    /\ revokeCall.pc = "idle"
    /\ revokeCall'.pc = "write" \/ (res' # res /\ res'.route = "revoke" /\ res'.status = 200)

RevokeBeginsAgain ==
    /\ RevokeBegins
    /\ IF revokeCall'.pc = "write" THEN revokeCall'.again ELSE obs'.again

\* C8: a revokeDelegation of a pair already revoked (and not added since)
\* answers success like the first one, finds no local entry, and changes
\* nothing in the local stores.
C8_RevokeTwice ==
    /\ []((res.route = "revoke" /\ res.status # 400 /\ obs.again) =>
             /\ res.status = 200
             /\ res.success
             /\ ~obs.hadDelegation)
    /\ [][RevokeBeginsAgain =>
             /\ delegationsDB' = delegationsDB
             /\ revokeDelegationsDB' = revokeDelegationsDB]_vars

C8_Witness ==
    /\ res.route = "revoke" /\ res.status = 200
    /\ res.success
    /\ obs.again

\* C9: a list never reports as Active a pair that was revoked before the
\* list began and has not been added since.
C9_NoResurrection ==
    ListSent =>
        \A i \in 1..Len(res.delegations) :
            res.delegations[i].status = "Active" =>
                PairOf(KeyOf(obs.userAddress, res.delegations[i].contractAddr))
                    \notin obs.rev

\* C10: the local store holds one record per (user, contractAddr) pair, the
\* one the last addDelegation of the pair wrote, whatever the letter case
\* the addresses were supplied in.
C10_OneRecordPerPair ==
    \A i \in 1..Len(delegationsDB) :
        /\ \A j \in 1..Len(delegationsDB) :
              PairOf(delegationsDB[i].key) = PairOf(delegationsDB[j].key) => i = j
        /\ delegationsDB[i].val = LastAdd(delegationsDB[i].key)

\* ================================================== request validation
\* POST /api/delegation on its own, with the request bodies a client can
\* send: durations (in hours) at and beyond the limits of constants.js, and
\* strings that are not addresses.
MAX_DELEGATION_DURATION == 30 * 24 * 60 * 60
MIN_DELEGATION_DURATION == 1 * 60 * 60

AddUserInputs == {UserLower, UserUpper, Empty}
AddContractInputs == {ContractChecksum, NotAnAddress}
AddDurationInputs == {0, 1, 720, 721}

NextAdd ==
    \/ \E u \in AddUserInputs, c \in AddContractInputs,
          d \in AddDurationInputs, t \in DescriptionInputs :
              AddStart(u, c, d, t, 0, 0)
    \/ Deliver

SpecAdd == Init /\ [][NextAdd]_vars

\* C11: an addDelegation whose duration is 0 seconds or more than 30 days
\* is rejected, and one of exactly 1 hour or exactly 30 days (with valid
\* addresses) is accepted.
C11_DurationValidated ==
    res.route = "add" =>
        LET durationSeconds == obs.duration * SecondsPerHour
        IN  /\ ( \/ durationSeconds = 0
                 \/ durationSeconds > MAX_DELEGATION_DURATION )
               => res.status # 200
            /\ ( /\ durationSeconds \in {MIN_DELEGATION_DURATION,
                                         MAX_DELEGATION_DURATION}
                 /\ isAddress(obs.userAddress)
                 /\ isAddress(obs.contractAddress) )
               => res.status = 200

\* C12: an addDelegation whose user or contractAddr is not a valid address
\* fails (status 400) and stores no delegation.
C12_AddressValidated ==
    ( /\ res.route = "add"
      /\ ~(isAddress(obs.userAddress) /\ isAddress(obs.contractAddress)) )
    => /\ res.status = 400
       /\ ~MapHas(delegationsDB, obs.key)

\* ============================================ the result of a revoke
\* C13: a revokeDelegation with both addresses present answers success;
\* contractRevokeSuccess is true only when the remote removal took effect,
\* and when it is false the note says why.
C13_RevokeResult ==
    (res.route = "revoke" /\ res.status = 200) =>
        /\ res.success
        /\ res.contractRevokeSuccess => ~ChainActive(res.user, res.contract)
        /\ ~res.contractRevokeSuccess => res.note # ""

\* ===================================================== other services
\* The handlers below keep no state between requests.  res holds the answer
\* (or the value a service function returned) until it is delivered, obs
\* the request and the remote facts the answer was computed from.

\* ------------------------------- POST /api/automation/revoke-expired
MaxBatch == 2        \* wallets in one revoke-expired request

WalletBatches ==
    UNION {[1..n -> {UserLower, UserChecksum, UserUpper}] : n \in 0..MaxBatch}

\* the entry results.push adds for one wallet
BatchResult(userWallet, ok) ==
    IF ok THEN [wallet |-> userWallet, success |-> TRUE, transactionHash |-> "hash"]
    ELSE [wallet |-> userWallet, success |-> FALSE, error |-> "err.message"]

\* the for-of loop from position from on: the first wallet that passes
\* `isAddress(userWallet) && smartGuardContract`, 0 when there is none
NextWallet(wallets, contract, from) ==
    LET hits == {j \in from..Len(wallets) : isAddress(wallets[j]) /\ contract}
    IN  IF hits = {} THEN 0 ELSE CHOOSE j \in hits : \A h \in hits : j <= h

RevokeExpiredResponse(f) ==
    [route |-> "revoke-expired", status |-> 200, success |-> TRUE,
     processed |-> Len(f.wallets), results |-> f.results]

\* ok[i]: write.cleanupExpired and waitForTransactionReceipt both resolved
\* for wallets[i]
RevokeExpiredObs(f) ==
    [route |-> "revoke-expired", wallets |-> f.wallets, ok |-> f.ok,
     contract |-> f.contract]

\* the loop goes on after the entry of wallet f.i has been pushed: to the
\* await of the next wallet's write, or to the response
RevokeExpiredContinue(k, f) ==
    LET j == NextWallet(f.wallets, f.contract, f.i + 1)
    IN  IF j = 0
        THEN /\ res' = RevokeExpiredResponse(f)
             /\ obs' = RevokeExpiredObs(f)
             /\ pending' = RemoveAt(pending, k)
        ELSE /\ pending' = [pending EXCEPT ![k] = [f EXCEPT !.i = j,
                                                           !.pc = "write"]]
             /\ UNCHANGED <<res, obs>>

\* the handler up to its first await (line 173)
RevokeExpiredStart(wallets) ==
    /\ res = NoResponse
    /\ LET f == [route |-> "revoke-expired", pc |-> "write",
                 wallets |-> wallets, contract |-> smartGuardContract,
                 i |-> NextWallet(wallets, smartGuardContract, 1),
                 results |-> << >>,
                 ok |-> [i \in 1..Len(wallets) |-> FALSE]]
       IN  IF ~walletClient
           THEN /\ res' = [route |-> "revoke-expired", status |-> 500,
                           success |-> FALSE]
                /\ obs' = RevokeExpiredObs(f)
                /\ UNCHANGED pending
           ELSE IF f.i = 0
           THEN /\ res' = RevokeExpiredResponse(f)
                /\ obs' = RevokeExpiredObs(f)
                /\ UNCHANGED pending
           ELSE /\ Len(pending) < MaxPending
                /\ pending' = Append(pending, f)
                /\ UNCHANGED <<res, obs>>
    /\ UNCHANGED <<chain, knownThreats>>
    /\ UNCHANGED <<now, ticks, smartGuardContract, walletClient, rpcUp,
                   delegationsDB, revokeDelegationsDB, addCall, revokeCall,
                   listCall, adds, revoked, dcaPlansDB, dcaIdCounter>>

\* smartGuardContract.write.cleanupExpired([userWallet]) settles: the
\* transaction is submitted (and is included or reverts), or the call
\* rejects
RevokeExpiredWriteReturns(k) ==
    /\ res = NoResponse
    /\ pending[k].route = "revoke-expired"
    /\ pending[k].pc = "write"
    /\ LET f == pending[k]
           userWallet == f.wallets[f.i]
       IN  IF rpcUp
           THEN /\ \E included \in BOOLEAN :
                     chain' = IF included
                              THEN ChainCleanupExpired(chain, userWallet, now)
                              ELSE chain
                /\ pending' = [pending EXCEPT ![k].pc = "receipt"]
                /\ UNCHANGED <<res, obs>>
           ELSE /\ UNCHANGED chain
                /\ RevokeExpiredContinue(k,
                       [f EXCEPT !.results =
                                     Append(@, BatchResult(userWallet, FALSE))])
    /\ UNCHANGED knownThreats
    /\ UNCHANGED <<now, ticks, smartGuardContract, walletClient, rpcUp,
                   delegationsDB, revokeDelegationsDB, addCall, revokeCall,
                   listCall, adds, revoked, dcaPlansDB, dcaIdCounter>>

\* publicClient.waitForTransactionReceipt settles
RevokeExpiredReceiptReturns(k) ==
    /\ res = NoResponse
    /\ pending[k].route = "revoke-expired"
    /\ pending[k].pc = "receipt"
    /\ LET f == pending[k]
           userWallet == f.wallets[f.i]
       IN  RevokeExpiredContinue(k,
               [f EXCEPT !.results = Append(@, BatchResult(userWallet, rpcUp)),
                         !.ok[f.i] = rpcUp])
    /\ UNCHANGED <<chain, knownThreats>>
    /\ UNCHANGED <<now, ticks, smartGuardContract, walletClient, rpcUp,
                   delegationsDB, revokeDelegationsDB, addCall, revokeCall,
                   listCall, adds, revoked, dcaPlansDB, dcaIdCounter>>

\* ------------------------------------------------- /api/threat routes
ThreatInputs == {ContractLower, ContractChecksum, NotAnAddress}
ReasonInputs == {Empty, <<"scam">>}

ThreatNotInitialized ==
    [route |-> "threat", status |-> 500, success |-> FALSE,
     error |-> "SmartGuard contract not initialized"]

\* POST /api/threat/report up to its await of the write
ThreatReportStart(contractAddress, reason) ==
    /\ res = NoResponse
    /\ IF ~Truthy(contractAddress) \/ ~Truthy(reason)
       THEN /\ res' = BadRequest("report")
            /\ obs' = [route |-> "report", remote |-> "none"]
            /\ UNCHANGED pending
       ELSE IF ~isAddress(contractAddress)
       THEN /\ res' = BadRequest("report")
            /\ obs' = [route |-> "report", remote |-> "none"]
            /\ UNCHANGED pending
       ELSE IF ~smartGuardContract \/ ~walletClient
       THEN /\ res' = [ThreatNotInitialized EXCEPT !.route = "report"]
            /\ obs' = [route |-> "report", remote |-> "none"]
            /\ UNCHANGED pending
       ELSE /\ Len(pending) < MaxPending
            /\ pending' = Append(pending,
                               [route |-> "report", pc |-> "write",
                                contractAddress |-> contractAddress,
                                reason |-> reason])
            /\ UNCHANGED <<res, obs>>
    /\ UNCHANGED <<chain, knownThreats>>
    /\ UNCHANGED <<now, ticks, smartGuardContract, walletClient, rpcUp,
                   delegationsDB, revokeDelegationsDB, addCall, revokeCall,
                   listCall, adds, revoked, dcaPlansDB, dcaIdCounter>>

\* smartGuardContract.write.reportThreat settles
ThreatReportWriteReturns(k) ==
    /\ res = NoResponse
    /\ pending[k].route = "report"
    /\ pending[k].pc = "write"
    /\ IF rpcUp
       THEN /\ \E included \in BOOLEAN :
                 knownThreats' =
                     IF included
                     THEN knownThreats \cup {Canonical(pending[k].contractAddress)}
                     ELSE knownThreats
            /\ pending' = [pending EXCEPT ![k].pc = "receipt"]
            /\ UNCHANGED <<res, obs>>
       ELSE /\ res' = [route |-> "report", status |-> 500, success |-> FALSE,
                       error |-> "Failed to report threat"]
            /\ obs' = [route |-> "report", remote |-> "failed"]
            /\ pending' = RemoveAt(pending, k)
            /\ UNCHANGED knownThreats
    /\ UNCHANGED chain
    /\ UNCHANGED <<now, ticks, smartGuardContract, walletClient, rpcUp,
                   delegationsDB, revokeDelegationsDB, addCall, revokeCall,
                   listCall, adds, revoked, dcaPlansDB, dcaIdCounter>>

\* publicClient.waitForTransactionReceipt settles
ThreatReportReceiptReturns(k) ==
    /\ res = NoResponse
    /\ pending[k].route = "report"
    /\ pending[k].pc = "receipt"
    /\ IF rpcUp
       THEN /\ res' = [route |-> "report", status |-> 200, success |-> TRUE,
                       contract |-> pending[k].contractAddress,
                       reason |-> pending[k].reason,
                       action |-> "Added to threat database"]
            /\ obs' = [route |-> "report", remote |-> "confirmed"]
       ELSE /\ res' = [route |-> "report", status |-> 500, success |-> FALSE,
                       error |-> "Failed to report threat"]
            /\ obs' = [route |-> "report", remote |-> "failed"]
    /\ pending' = RemoveAt(pending, k)
    /\ UNCHANGED <<chain, knownThreats>>
    /\ UNCHANGED <<now, ticks, smartGuardContract, walletClient, rpcUp,
                   delegationsDB, revokeDelegationsDB, addCall, revokeCall,
                   listCall, adds, revoked, dcaPlansDB, dcaIdCounter>>

\* POST /api/threat/auto-revoke up to its await of the write
ThreatAutoRevokeStart(userAddress, contractAddress, reason) ==
    /\ res = NoResponse
    /\ IF ~Truthy(userAddress) \/ ~Truthy(contractAddress) \/ ~Truthy(reason)
       THEN /\ res' = BadRequest("auto-revoke")
            /\ obs' = [route |-> "auto-revoke", remote |-> "none"]
            /\ UNCHANGED pending
       ELSE IF ~isAddress(userAddress) \/ ~isAddress(contractAddress)
       THEN /\ res' = BadRequest("auto-revoke")
            /\ obs' = [route |-> "auto-revoke", remote |-> "none"]
            /\ UNCHANGED pending
       ELSE IF ~smartGuardContract \/ ~walletClient
       THEN /\ res' = [ThreatNotInitialized EXCEPT !.route = "auto-revoke"]
            /\ obs' = [route |-> "auto-revoke", remote |-> "none"]
            /\ UNCHANGED pending
       ELSE /\ Len(pending) < MaxPending
            /\ pending' = Append(pending,
                               [route |-> "auto-revoke", pc |-> "write",
                                userAddress |-> userAddress,
                                contractAddress |-> contractAddress,
                                reason |-> reason])
            /\ UNCHANGED <<res, obs>>
    /\ UNCHANGED <<chain, knownThreats>>
    /\ UNCHANGED <<now, ticks, smartGuardContract, walletClient, rpcUp,
                   delegationsDB, revokeDelegationsDB, addCall, revokeCall,
                   listCall, adds, revoked, dcaPlansDB, dcaIdCounter>>

\* autoRevokeThreat(user, contractAddr, reason) of the deployed contract:
\* the delegation of the pair is deactivated
ChainAutoRevokeThreat(ch, u, c) == ChainRemoveDelegation(ch, u, c)

\* smartGuardContract.write.autoRevokeThreat settles. Whether the contract
\* also lists the address as a known threat is not fixed by the backend.
ThreatAutoRevokeWriteReturns(k) ==
    /\ res = NoResponse
    /\ pending[k].route = "auto-revoke"
    /\ pending[k].pc = "write"
    /\ IF rpcUp
       THEN /\ \E included \in BOOLEAN, listed \in BOOLEAN :
                 /\ chain' = IF included
                             THEN ChainAutoRevokeThreat(chain,
                                      pending[k].userAddress,
                                      pending[k].contractAddress)
                             ELSE chain
                 /\ knownThreats' =
                        IF included /\ listed
                        THEN knownThreats
                                 \cup {Canonical(pending[k].contractAddress)}
                        ELSE knownThreats
            /\ pending' = [pending EXCEPT ![k].pc = "receipt"]
            /\ UNCHANGED <<res, obs>>
       ELSE /\ res' = [route |-> "auto-revoke", status |-> 500,
                       success |-> FALSE,
                       error |-> "Failed to execute auto-revoke"]
            /\ obs' = [route |-> "auto-revoke", remote |-> "failed"]
            /\ pending' = RemoveAt(pending, k)
            /\ UNCHANGED <<chain, knownThreats>>
    /\ UNCHANGED <<now, ticks, smartGuardContract, walletClient, rpcUp,
                   delegationsDB, revokeDelegationsDB, addCall, revokeCall,
                   listCall, adds, revoked, dcaPlansDB, dcaIdCounter>>

\* publicClient.waitForTransactionReceipt settles
ThreatAutoRevokeReceiptReturns(k) ==
    /\ res = NoResponse
    /\ pending[k].route = "auto-revoke"
    /\ pending[k].pc = "receipt"
    /\ IF rpcUp
       THEN /\ res' = [route |-> "auto-revoke", status |-> 200,
                       success |-> TRUE,
                       user |-> pending[k].userAddress,
                       contract |-> pending[k].contractAddress,
                       reason |-> pending[k].reason,
                       action |-> "Contract access revoked automatically"]
            /\ obs' = [route |-> "auto-revoke", remote |-> "confirmed"]
       ELSE /\ res' = [route |-> "auto-revoke", status |-> 500,
                       success |-> FALSE,
                       error |-> "Failed to execute auto-revoke"]
            /\ obs' = [route |-> "auto-revoke", remote |-> "failed"]
    /\ pending' = RemoveAt(pending, k)
    /\ UNCHANGED <<chain, knownThreats>>
    /\ UNCHANGED <<now, ticks, smartGuardContract, walletClient, rpcUp,
                   delegationsDB, revokeDelegationsDB, addCall, revokeCall,
                   listCall, adds, revoked, dcaPlansDB, dcaIdCounter>>

\* GET /api/threat/check/:contractAddress up to its await of the
\* knownThreats read (line 694)
ThreatCheckStart(contractAddress) ==
    /\ res = NoResponse
    /\ IF ~isAddress(contractAddress)
       THEN /\ res' = BadRequest("threat")
            /\ obs' = [route |-> "threat", contractAddress |-> contractAddress,
                        contract |-> smartGuardContract, remoteOk |-> FALSE]
            /\ UNCHANGED pending
       ELSE IF ~smartGuardContract
       THEN /\ res' = [route |-> "threat", status |-> 200, success |-> TRUE,
                       isThreat |-> FALSE,
                       message |-> "Contract not initialized - assuming safe"]
            /\ obs' = [route |-> "threat", contractAddress |-> contractAddress,
                        contract |-> FALSE, remoteOk |-> FALSE]
            /\ UNCHANGED pending
       ELSE /\ Len(pending) < MaxPending
            /\ pending' = Append(pending,
                               [route |-> "threat", pc |-> "knownThreats",
                                contractAddress |-> contractAddress])
            /\ UNCHANGED <<res, obs>>
    /\ UNCHANGED <<chain, knownThreats>>
    /\ UNCHANGED <<now, ticks, smartGuardContract, walletClient, rpcUp,
                   delegationsDB, revokeDelegationsDB, addCall, revokeCall,
                   listCall, adds, revoked, dcaPlansDB, dcaIdCounter>>

ThreatCheckResponse(contractAddress, isThreat, reason) ==
    [route |-> "threat", status |-> 200, success |-> TRUE,
     contract |-> contractAddress, isThreat |-> isThreat, reason |-> reason,
     recommendation |-> IF isThreat THEN "AVOID - Known malicious contract"
                        ELSE "Appears safe"]

\* smartGuardContract.read.knownThreats settles
ThreatKnownReturns(k) ==
    /\ res = NoResponse
    /\ pending[k].route = "threat"
    /\ pending[k].pc = "knownThreats"
    /\ LET contractAddress == pending[k].contractAddress
           isThreat == Canonical(contractAddress) \in knownThreats
       IN  IF ~rpcUp
           THEN /\ res' = [route |-> "threat", status |-> 500,
                           success |-> FALSE,
                           error |-> "Failed to check threat status"]
                /\ obs' = [route |-> "threat",
                            contractAddress |-> contractAddress,
                            contract |-> TRUE, remoteOk |-> FALSE]
                /\ pending' = RemoveAt(pending, k)
           ELSE IF isThreat
           THEN /\ pending' = [pending EXCEPT ![k].pc = "threatReasons"]
                /\ UNCHANGED <<res, obs>>
           ELSE /\ res' = ThreatCheckResponse(contractAddress, FALSE, "")
                /\ obs' = [route |-> "threat",
                            contractAddress |-> contractAddress,
                            contract |-> TRUE, remoteOk |-> TRUE]
                /\ pending' = RemoveAt(pending, k)
    /\ UNCHANGED <<chain, knownThreats>>
    /\ UNCHANGED <<now, ticks, smartGuardContract, walletClient, rpcUp,
                   delegationsDB, revokeDelegationsDB, addCall, revokeCall,
                   listCall, adds, revoked, dcaPlansDB, dcaIdCounter>>

\* smartGuardContract.read.threatReasons settles; a failure leaves the
\* reason empty (lines 698-703)
ThreatReasonReturns(k) ==
    /\ res = NoResponse
    /\ pending[k].route = "threat"
    /\ pending[k].pc = "threatReasons"
    /\ res' = ThreatCheckResponse(pending[k].contractAddress, TRUE,
                                  IF rpcUp THEN "reason" ELSE "")
    /\ obs' = [route |-> "threat",
                contractAddress |-> pending[k].contractAddress,
                contract |-> TRUE, remoteOk |-> TRUE]
    /\ pending' = RemoveAt(pending, k)
    /\ UNCHANGED <<chain, knownThreats>>
    /\ UNCHANGED <<now, ticks, smartGuardContract, walletClient, rpcUp,
                   delegationsDB, revokeDelegationsDB, addCall, revokeCall,
                   listCall, adds, revoked, dcaPlansDB, dcaIdCounter>>

\* ------------------------------------------- services/riskScoring.js
\* Addresses are the two-character stand-ins used above.  An amount of
\* native currency is a whole number of thousandths of a unit, so that
\* formatEther(x) > 10 reads x > 10000.  A bytecode string is what the code
\* looks at: its length and whether it includes the two words searched for.
RiskyLower == <<"0", "a">>
RiskyChecksum == <<"0", "A">>

KNOWN_RISKY_CONTRACTS == <<RiskyLower, <<"a", "0">>, <<"b", "0">>>>

\* the keys of the table have 41 hex digits, one more than an address
CONTRACT_REPUTATION ==
    [k \in {<<"a", "b", "0">>, <<"a", "b", "a">>, <<"a", "b", "b">>} |->
        CASE k = <<"a", "b", "0">> -> [risk |-> 20, category |-> "DeFi"]
          [] k = <<"a", "b", "a">> -> [risk |-> 60, category |-> "Gambling"]
          [] k = <<"a", "b", "b">> -> [risk |-> 80, category |-> "High-Risk"]]

\* a getCode call that rejects
Fail == [rejected |-> TRUE]
EmptyCode == [length |-> 2, delegatecall |-> FALSE, selfdestruct |-> FALSE]
Codes ==
    {EmptyCode,
     [length |-> 100, delegatecall |-> FALSE, selfdestruct |-> FALSE],
     [length |-> 100, delegatecall |-> TRUE, selfdestruct |-> FALSE],
     [length |-> 5001, delegatecall |-> FALSE, selfdestruct |-> TRUE],
     [length |-> 10001, delegatecall |-> TRUE, selfdestruct |-> TRUE]}
CodeReads == Codes \cup {Fail}

Threw(op) == [route |-> op, threw |-> TRUE]

Max(a, b) == IF a >= b THEN a ELSE b
Min(a, b) == IF a <= b THEN a ELSE b

\* Math.round of a whole number
MathRound(x) == x

Includes(seq, x) == \E i \in 1..Len(seq) : seq[i] = x

\* variant: only the lower end is clamped
ClampLowerOnly(riskScore) == Max(0, riskScore)

\* Math.max(0, Math.min(100, riskScore))
Clamp(riskScore) == Max(0, Min(100, riskScore))

\* variant: the thresholds are exclusive
getRiskLevelExclusive(score) ==
    IF score > 70 THEN "High" ELSE IF score > 30 THEN "Medium" ELSE "Low"

getRiskLevel(score) ==
    IF score >= 70 THEN "High" ELSE IF score >= 30 THEN "Medium" ELSE "Low"

\* provider.getCode({ address }): rejects for what is not an address
GetCode(address, read) == IF isAddress(address) THEN read ELSE Fail

\* variant: any code read that resolves counts as a contract
isContractAddressAnyCode(read) == read # Fail

isContractAddress(read) == IF read = Fail THEN FALSE ELSE read # EmptyCode

analyzeContractCode(code) ==
    LET large == code.length > 10000
        factors ==
            (IF large THEN <<"Large contract code">> ELSE << >>)
            \o (IF code.delegatecall
                THEN <<"Uses delegatecall - potential proxy risk">> ELSE << >>)
            \o (IF code.selfdestruct
                THEN <<"Contains selfdestruct function">> ELSE << >>)
    IN  [score |-> (IF large THEN 10 ELSE 0)
                   + (IF code.delegatecall THEN 20 ELSE 0)
                   + (IF code.selfdestruct THEN 25 ELSE 0),
         factors |-> factors,
         hasComplexLogic |-> code.length > 5000,
         potentialRisks |-> factors]

analyzeCodeComplexity(code) ==
    IF code.length < 1000 THEN "Low"
    ELSE IF code.length < 5000 THEN "Medium" ELSE "High"

generateRecommendations(score, factors) ==
    (IF score >= 70
     THEN <<"Consider using a hardware wallet", "Review all token approvals",
            "Enable transaction monitoring">>
     ELSE IF score >= 30
     THEN <<"Monitor wallet activity regularly",
            "Review token approvals monthly",
            "Consider multi-signature for large holdings">>
     ELSE <<"Continue current security practices", "Keep software updated",
            "Use strong password and 2FA">>)
    \o (IF Includes(factors, "No transaction history")
        THEN <<"Consider making a test transaction first">> ELSE << >>)
    \o (IF Includes(factors, "High balance")
        THEN <<"Diversify assets across multiple wallets">> ELSE << >>)

\* balance in thousandths; contractRead is the getCode of isContractAddress,
\* codeRead the getCode of the Promise.all; interactions is the number of
\* known risky contracts checkRiskyInteractions drew
scoreWallet(address, balance, txCount, contractRead, codeRead, interactions) ==
    IF ~isAddress(address) \/ codeRead = Fail THEN Threw("scoreWallet")
    ELSE
    LET isContract == isContractAddress(contractRead)
        code == codeRead
        zero == balance = 0
        high == balance > 10000
        none == txCount = 0
        few == txCount # 0 /\ txCount < 3
        withCode == isContract /\ code # EmptyCode
        codeRisk == analyzeContractCode(code)
        riskScore ==
            50 + (IF zero THEN 10 ELSE IF high THEN 15 ELSE 0)
               + (IF none THEN 20 ELSE IF few THEN 10 ELSE 0)
               - (IF isContract THEN 10 ELSE 0)
               + (IF withCode THEN codeRisk.score ELSE 0)
               + interactions * 15
        riskFactors ==
            (IF zero THEN <<"Zero balance">>
             ELSE IF high THEN <<"High balance">> ELSE << >>)
            \o (IF none THEN <<"No transaction history">>
                ELSE IF few THEN <<"Low transaction count">> ELSE << >>)
            \o (IF isContract THEN <<"Contract address">> ELSE << >>)
            \o (IF withCode THEN codeRisk.factors ELSE << >>)
            \o (IF interactions > 0
                THEN <<"Interacted with risky contracts">> ELSE << >>)
        warnings ==
            (IF none THEN <<"Wallet appears to be new or inactive">> ELSE << >>)
            \o (IF interactions > 0
                THEN <<"Found interactions with risky contracts">> ELSE << >>)
        clamped == Clamp(riskScore)
    IN  [route |-> "scoreWallet", threw |-> FALSE,
         riskScore |-> MathRound(clamped),
         riskLevel |-> getRiskLevel(clamped),
         factors |-> riskFactors,
         warnings |-> warnings,
         details |-> [balance |-> balance, transactionCount |-> txCount,
                      isContract |-> isContract,
                      riskyInteractions |-> interactions,
                      codeComplexity |-> IF isContract
                                         THEN analyzeCodeComplexity(code)
                                         ELSE "null"],
         recommendations |-> generateRecommendations(clamped, riskFactors)]

\* variant: the address is looked up as it was given
LowerAddressAsGiven(contractAddress) == contractAddress

\* line 131: contractAddress.toLowerCase()
LowerAddress(contractAddress) == ToLowerCase(contractAddress)

\* codeRead is the getCode of the Promise.all, contractRead the getCode of
\* isContractAddress
scoreContract(contractAddress, codeRead, contractRead) ==
    IF ~isAddress(contractAddress) \/ codeRead = Fail
    THEN Threw("scoreContract")
    ELSE IF ~isContractAddress(contractRead) \/ codeRead = EmptyCode
    THEN [route |-> "scoreContract", threw |-> FALSE,
          contract |-> contractAddress, score |-> 0, riskLevel |-> "Unknown",
          reasons |-> <<"Not a contract or no code">>, verified |-> FALSE]
    ELSE
    LET code == codeRead
        analysis == analyzeContractCode(code)
        lowerAddress == LowerAddress(contractAddress)
        known == Includes(KNOWN_RISKY_CONTRACTS, lowerAddress)
        reputed == lowerAddress \in DOMAIN CONTRACT_REPUTATION
        riskScore ==
            IF known THEN 100
            ELSE IF reputed
            THEN Max(50 + analysis.score, CONTRACT_REPUTATION[lowerAddress].risk)
            ELSE 50 + analysis.score
        clamped == Clamp(riskScore)
    IN  [route |-> "scoreContract", threw |-> FALSE,
         contract |-> contractAddress,
         score |-> MathRound(clamped),
         riskLevel |-> getRiskLevel(clamped),
         reasons |-> analysis.factors
                     \o (IF known THEN <<"Flagged as known risky contract">>
                         ELSE IF reputed
                         THEN <<CONTRACT_REPUTATION[lowerAddress].category>>
                         ELSE << >>),
         verified |-> FALSE,
         analysis |-> [codeSize |-> code.length,
                       hasComplexLogic |-> analysis.hasComplexLogic,
                       potentialRisks |-> analysis.potentialRisks]]

NoData == [length |-> 0, marker |-> FALSE]
EmptyData == [length |-> 2, marker |-> TRUE]

\* value in thousandths; data.marker: data is the string "0x"; toRead is
\* the getCode of isContractAddress(to), codeRead and contractRead the two
\* reads of scoreContract(to)
analyzeTransaction(to, value, data, toRead, codeRead, contractRead) ==
    LET toIsContract == isContractAddress(GetCode(to, toRead))
        contractScore == scoreContract(to, codeRead, contractRead)
    IN
    IF toIsContract /\ contractScore.threw THEN Threw("analyzeTransaction")
    ELSE
    LET highValue == value > 0 /\ value > 1000
        mediumValue == value > 0 /\ ~highValue /\ value > 100
        hasCalldata == data.length > 0 /\ ~data.marker
        complex == hasCalldata /\ data.length > 100
        riskScore ==
            (IF highValue THEN 20 ELSE IF mediumValue THEN 10 ELSE 0)
            + (IF toIsContract
               THEN 15 + Max(0, contractScore.score - 50) ELSE 0)
            + (IF hasCalldata THEN 10 ELSE 0)
            + (IF complex THEN 5 ELSE 0)
        clamped == Clamp(riskScore)
    IN  [route |-> "analyzeTransaction", threw |-> FALSE,
         riskScore |-> MathRound(clamped),
         riskLevel |-> getRiskLevel(clamped),
         warnings |->
             (IF highValue THEN <<"High value transaction">> ELSE << >>)
             \o (IF toIsContract /\ contractScore.score > 70
                 THEN <<"Interacting with high-risk contract">> ELSE << >>)
             \o (IF complex THEN <<"Complex contract call detected">>
                 ELSE << >>),
         analysis |-> [valueRisk |-> IF highValue THEN "High"
                                     ELSE IF mediumValue THEN "Medium"
                                     ELSE "undefined",
                       isContractInteraction |-> toIsContract,
                       hasCalldata |-> hasCalldata],
         shouldProceed |-> clamped < 70,
         recommendations |->
             IF clamped >= 70
             THEN <<"Review transaction carefully", "Verify contract address",
                    "Consider using a different wallet for this transaction">>
             ELSE <<"Transaction appears safe",
                    "Always verify addresses before confirming">>]

ScoreAddressInputs == {RiskyLower, RiskyChecksum, ContractLower, NotAnAddress}
BalanceInputs == {0, 10000, 10001}
TxCountInputs == {0, 2, 3}
InteractionInputs == 0..Len(KNOWN_RISKY_CONTRACTS)
ValueInputs == {0, 100, 101, 1000, 1001}
DataInputs == {NoData, EmptyData, [length |-> 100, marker |-> FALSE],
               [length |-> 101, marker |-> FALSE]}
ScoreInputs == 0..100

ScoreWallet(address, balance, txCount, contractRead, codeRead, interactions) ==
    /\ res = NoResponse
    /\ res' = scoreWallet(address, balance, txCount, contractRead, codeRead,
                          interactions)
    /\ obs' = [route |-> "scoreWallet", address |-> address,
               contractRead |-> contractRead, codeRead |-> codeRead]
    /\ UNCHANGED <<now, ticks, smartGuardContract, walletClient, rpcUp,
                   delegationsDB, revokeDelegationsDB, chain, addCall,
                   revokeCall, listCall, adds, revoked>>
    /\ UNCHANGED <<dcaPlansDB, dcaIdCounter, pending, knownThreats>>

ScoreContract(contractAddress, codeRead, contractRead) ==
    /\ res = NoResponse
    /\ res' = scoreContract(contractAddress, codeRead, contractRead)
    /\ obs' = [route |-> "scoreContract", address |-> contractAddress,
               contractRead |-> contractRead, codeRead |-> codeRead]
    /\ UNCHANGED <<now, ticks, smartGuardContract, walletClient, rpcUp,
                   delegationsDB, revokeDelegationsDB, chain, addCall,
                   revokeCall, listCall, adds, revoked>>
    /\ UNCHANGED <<dcaPlansDB, dcaIdCounter, pending, knownThreats>>

AnalyzeTransaction(to, value, data, toRead, codeRead, contractRead) ==
    /\ res = NoResponse
    /\ res' = analyzeTransaction(to, value, data, toRead, codeRead,
                                 contractRead)
    /\ obs' = [route |-> "analyzeTransaction", address |-> to,
               value |-> value, data |-> data, toRead |-> toRead,
               contractRead |-> contractRead, codeRead |-> codeRead]
    /\ UNCHANGED <<now, ticks, smartGuardContract, walletClient, rpcUp,
                   delegationsDB, revokeDelegationsDB, chain, addCall,
                   revokeCall, listCall, adds, revoked>>
    /\ UNCHANGED <<dcaPlansDB, dcaIdCounter, pending, knownThreats>>

GetRiskLevel(score) ==
    /\ res = NoResponse
    /\ res' = [route |-> "getRiskLevel", level |-> getRiskLevel(score)]
    /\ obs' = [route |-> "getRiskLevel", score |-> score]
    /\ UNCHANGED <<now, ticks, smartGuardContract, walletClient, rpcUp,
                   delegationsDB, revokeDelegationsDB, chain, addCall,
                   revokeCall, listCall, adds, revoked>>
    /\ UNCHANGED <<dcaPlansDB, dcaIdCounter, pending, knownThreats>>

\* ------------------------------------------------------------ helpers.js
\* isValidAddress is viem's isAddress.
isValidAddress(address) == isAddress(address)

\* variant: stop at the first violated constraint
validateDelegationParamsFirstOnly(user, contract, expiresAt, t) ==
    IF ~isValidAddress(user) THEN <<"Invalid user address">>
    ELSE IF ~isValidAddress(contract) THEN <<"Invalid contract address">>
    ELSE IF expiresAt <= t THEN <<"Expiration must be in the future">>
    ELSE IF expiresAt > t + MAX_DELEGATION_DURATION
         THEN <<"Delegation duration cannot exceed 30 days">>
    ELSE <<>>

\* validateDelegationParams(user, contract, expiresAt); t is the value of
\* Math.floor(Date.now() / 1000) read inside the function.
validateDelegationParams(user, contract, expiresAt, t) ==
    LET e1 == IF ~isValidAddress(user)
              THEN <<"Invalid user address">> ELSE <<>>
        e2 == IF ~isValidAddress(contract)
              THEN e1 \o <<"Invalid contract address">> ELSE e1
        e3 == IF expiresAt <= t
              THEN e2 \o <<"Expiration must be in the future">> ELSE e2
    IN  IF expiresAt > t + MAX_DELEGATION_DURATION
        THEN e3 \o <<"Delegation duration cannot exceed 30 days">>
        ELSE e3

ValidateUserInputs == {UserLower, NotAnAddress}
ValidateContractInputs == {ContractChecksum, NotAnAddress}
ExpiryOffsets == {-1, 0, 1, MAX_DELEGATION_DURATION, MAX_DELEGATION_DURATION + 1}

ValidateDelegationParams(user, contract, offset) ==
    /\ res = NoResponse
    /\ res' = [route |-> "validateDelegationParams",
               errors |-> validateDelegationParams(user, contract,
                                                   now + offset, now)]
    /\ obs' = [route |-> "validateDelegationParams", user |-> user,
               contract |-> contract, expiresAt |-> now + offset,
               now |-> now]
    /\ UNCHANGED <<now, ticks, smartGuardContract, walletClient, rpcUp,
                   delegationsDB, revokeDelegationsDB, chain, addCall,
                   revokeCall, listCall, adds, revoked>>
    /\ UNCHANGED <<dcaPlansDB, dcaIdCounter, pending, knownThreats>>

MaxRetries == 3

\* fn is the sequence of outcomes of its successive invocations; an
\* invocation consumes the head. calls counts the invocations, sleeps lists
\* the arguments of sleep in order, settled is the outcome the returned
\* promise settles with (ok: resolved with that value, else rejected with
\* that error).
RECURSIVE retryAsyncFixedDelay(_, _, _)
\* variant: the delay is not doubled
retryAsyncFixedDelay(fn, retries, delay) ==
    LET r == Head(fn)
    IN  IF r.ok \/ retries = 0
        THEN [calls |-> 1, sleeps |-> <<>>, settled |-> r]
        ELSE LET rest == retryAsyncFixedDelay(Tail(fn), retries - 1, delay)
             IN  [calls |-> 1 + rest.calls,
                  sleeps |-> <<delay>> \o rest.sleeps,
                  settled |-> rest.settled]

RECURSIVE retryAsync(_, _, _)
retryAsync(fn, retries, delay) ==
    LET r == Head(fn)
    IN  IF r.ok
        THEN [calls |-> 1, sleeps |-> <<>>, settled |-> r]
        ELSE IF retries = 0
        THEN [calls |-> 1, sleeps |-> <<>>, settled |-> r]
        ELSE LET rest == retryAsync(Tail(fn), retries - 1, delay * 2)
             IN  [calls |-> 1 + rest.calls,
                  sleeps |-> <<delay>> \o rest.sleeps,
                  settled |-> rest.settled]

\* Every pattern of success and failure over the invocations; an outcome
\* carries the index of the invocation that produced it.
FnInputs ==
    { [i \in 1..(MaxRetries + 1) |-> [ok |-> b[i], id |-> i]] :
          b \in [1..(MaxRetries + 1) -> BOOLEAN] }
RetriesInputs == 0..MaxRetries
DelayInputs == {1, 1000}

RetryAsync(fn, retries, delay) ==
    /\ res = NoResponse
    /\ LET r == retryAsync(fn, retries, delay)
       IN  res' = [route |-> "retryAsync", calls |-> r.calls,
                   sleeps |-> r.sleeps, settled |-> r.settled]
    /\ obs' = [route |-> "retryAsync", fn |-> fn, retries |-> retries,
               delay |-> delay]
    /\ UNCHANGED <<now, ticks, smartGuardContract, walletClient, rpcUp,
                   delegationsDB, revokeDelegationsDB, chain, addCall,
                   revokeCall, listCall, adds, revoked>>
    /\ UNCHANGED <<dcaPlansDB, dcaIdCounter, pending, knownThreats>>

RISK_THRESHOLDS == [LOW |-> 30, MEDIUM |-> 70, HIGH |-> 90]

\* helpers.js getRiskLevel
helpersGetRiskLevel(score) ==
    IF score >= RISK_THRESHOLDS.HIGH THEN "High"
    ELSE IF score >= RISK_THRESHOLDS.MEDIUM THEN "Medium"
    ELSE "Low"

\* routes/wallet.js getRiskLevel, used by the risk analysis routes
routeGetRiskLevel(score) ==
    IF score >= 70 THEN "High"
    ELSE IF score >= 30 THEN "Medium"
    ELSE "Low"

\* The three level functions of the backend applied to one score.
RiskLevels(score) ==
    /\ res = NoResponse
    /\ res' = [route |-> "riskLevels",
               service |-> getRiskLevel(score),
               helpers |-> helpersGetRiskLevel(score),
               walletRoute |-> routeGetRiskLevel(score)]
    /\ obs' = [route |-> "riskLevels", score |-> score]
    /\ UNCHANGED <<now, ticks, smartGuardContract, walletClient, rpcUp,
                   delegationsDB, revokeDelegationsDB, chain, addCall,
                   revokeCall, listCall, adds, revoked>>
    /\ UNCHANGED <<dcaPlansDB, dcaIdCounter, pending, knownThreats>>

\* ------------------------------------------------------------ behaviours
NextServices ==
    \/ SetContracts
    \/ RpcToggle
    \/ Deliver
    \/ /\ res = NoResponse
       /\ \E a \in ScoreAddressInputs, b \in BalanceInputs, n \in TxCountInputs,
             r1 \in CodeReads, r2 \in CodeReads, k \in InteractionInputs :
                 ScoreWallet(a, b, n, r1, r2, k)
    \/ \E a \in ScoreAddressInputs, r1 \in CodeReads, r2 \in CodeReads :
          ScoreContract(a, r1, r2)
    \/ /\ res = NoResponse
       /\ \E a \in ScoreAddressInputs, v \in ValueInputs, d \in DataInputs,
             r0 \in CodeReads, r1 \in CodeReads, r2 \in CodeReads :
                 AnalyzeTransaction(a, v, d, r0, r1, r2)
    \/ \E s \in ScoreInputs : GetRiskLevel(s)
    \/ \E u \in ValidateUserInputs, c \in ValidateContractInputs,
          o \in ExpiryOffsets : ValidateDelegationParams(u, c, o)
    \/ \E s \in ScoreInputs : RiskLevels(s)
    \/ \E f \in FnInputs, n \in RetriesInputs, d \in DelayInputs :
          RetryAsync(f, n, d)

SpecServices == Init /\ [][NextServices]_vars

\* bounds of the behaviours in which every route is served side by side
MaxRemoteAdds == 1
RemoteBatches == {<<UserUpper>>, <<UserLower, UserUpper>>, <<UserLower, UserLower>>}

\* handlers suspended at a remote call
InFlight ==
    Len(addCall) + Len(pending) + (IF revokeCall.pc = "idle" THEN 0 ELSE 1)
        + (IF listCall.pc = "idle" THEN 0 ELSE 1)

\* the backend's routes that wait for the remote store, next to each other
\* and to the browser page writing to the same contract
NextRemote ==
    \/ \E d \in TickInputs : Tick(d)
    \/ SetContracts
    \/ RpcToggle
    \/ Deliver
    \/ /\ Len(adds) < MaxRemoteAdds
       /\ InFlight < MaxPending
       /\ \E u \in UserInputs, c \in ContractInputs, d \in DurationInputs,
             t \in DescriptionInputs : AddStart(u, c, d, t, 0, 0)
    \/ \E i \in 1..Len(addCall) : AddWriteReturns(i)
    \/ \E i \in 1..Len(addCall) : AddReceiptReturns(i)
    \/ /\ InFlight < MaxPending
       /\ \E u \in RevokeUserInputs, c \in ContractInputs : RevokeStart(u, c)
    \/ RevokeWriteReturns
    \/ /\ InFlight < MaxPending
       /\ \E u \in ListInputs : ListStart(u)
    \/ ListReadReturns
    \/ /\ InFlight < MaxPending
       /\ \E a \in WalletInputs \cup {NotAnAddress} : WalletStart(a)
    \/ \E k \in 1..Len(pending) : WalletReadReturns(k)
    \/ /\ InFlight < MaxPending
       /\ \E w \in RemoteBatches : RevokeExpiredStart(w)
    \/ \E k \in 1..Len(pending) : RevokeExpiredWriteReturns(k)
    \/ \E k \in 1..Len(pending) : RevokeExpiredReceiptReturns(k)
    \/ /\ InFlight < MaxPending
       /\ \E a \in ThreatInputs : ThreatCheckStart(a)
    \/ \E k \in 1..Len(pending) : ThreatKnownReturns(k)
    \/ \E k \in 1..Len(pending) : ThreatReasonReturns(k)
    \/ /\ InFlight < MaxPending
       /\ \E a \in ThreatInputs, r \in ReasonInputs : ThreatReportStart(a, r)
    \/ \E k \in 1..Len(pending) : ThreatReportWriteReturns(k)
    \/ \E k \in 1..Len(pending) : ThreatReportReceiptReturns(k)
    \/ /\ InFlight < MaxPending
       /\ \E u \in RevokeUserInputs, r \in ReasonInputs :
             ThreatAutoRevokeStart(u, ContractLower, r)
    \/ \E k \in 1..Len(pending) : ThreatAutoRevokeWriteReturns(k)
    \/ \E k \in 1..Len(pending) : ThreatAutoRevokeReceiptReturns(k)
    \/ \E w \in BrowserWalletInputs, c \in BrowserContractInputs,
          h \in BrowserHoursInputs : HandleAddDelegation(w, c, h)
    \/ \E w \in BrowserWalletInputs, c \in BrowserContractInputs :
          HandleRealRevoke(w, c)
    \/ \E w \in BrowserWalletInputs : HandleCleanupExpired(w)

SpecRemote == Init /\ [][NextRemote]_vars

\* ------------------------------------------------------------- claims
\* C14: a revoke-expired batch answers with one result entry per wallet of
\* the batch, in order, a failed remote cleanup being recorded as a failed
\* entry for that wallet while the wallets after it are still processed.
C14_EveryUserHasResult ==
    (res.route = "revoke-expired" /\ res.status = 200) =>
        /\ Len(res.results) = Len(obs.wallets)
        /\ \A i \in 1..Len(obs.wallets) :
              /\ res.results[i].wallet = obs.wallets[i]
              /\ res.results[i].success = obs.ok[i]

\* C15: a threat check of a valid address made while the registry is
\* unavailable (no contract handle, or the remote read fails) answers
\* isThreat = false with a note, not an error.
C15_ThreatFailsOpen ==
    ( /\ res.route = "threat"
      /\ isAddress(obs.contractAddress)
      /\ (~obs.contract \/ ~obs.remoteOk) )
    => /\ res.status = 200
       /\ ~res.isThreat
       /\ res.message # ""

\* the score a scoring call returned
ScoreOf(r) == IF r.route = "scoreContract" THEN r.score ELSE r.riskScore

Scored ==
    /\ res.route \in {"scoreWallet", "scoreContract", "analyzeTransaction"}
    /\ ~res.threw

\* C17: the score returned by scoreWallet, scoreContract and
\* analyzeTransaction is a whole number from 0 to 100.
C17_ScoreInRange == Scored => ScoreOf(res) \in 0..100

\* scoreWallet returns 100 where the factors add up to 50 + 10 + 20 + 45
C17_Witness ==
    /\ res.route = "scoreWallet" /\ ~res.threw
    /\ res.details.balance = 0
    /\ res.details.transactionCount = 0
    /\ ~res.details.isContract
    /\ res.details.riskyInteractions = 3
    /\ res.riskScore = 100

\* scoreContract returned for an address of the known-malicious list
KnownRiskyScored ==
    /\ res.route = "scoreContract" /\ ~res.threw
    /\ Includes(KNOWN_RISKY_CONTRACTS, ToLowerCase(obs.address))

\* C18 (as stated): scoreContract returns 100 for an address of the
\* known-malicious list whatever its bytecode.
C18_KnownRiskyAlways100 == KnownRiskyScored => res.score = 100

\* C18 (amended): for an address of the known-malicious list scoreContract
\* returns 100 (High) when both code reads find code at the address, whatever
\* the code contains, and 0 (Unknown) otherwise.
C18_KnownRiskyWithCode ==
    KnownRiskyScored =>
        IF obs.codeRead # EmptyCode /\ isContractAddress(obs.contractRead)
        THEN res.score = 100 /\ res.riskLevel = "High"
        ELSE res.score = 0 /\ res.riskLevel = "Unknown"

\* a listed address given in checksum case, with code that adds nothing
C18_Witness ==
    /\ KnownRiskyScored
    /\ obs.address = RiskyChecksum
    /\ res.riskLevel # "Unknown"
    /\ res.reasons = <<"Flagged as known risky contract">>
    /\ res.score = 100

\* C19: scoreContract returns level Unknown with score 0 exactly when the
\* bytecode at the address is empty.
C19_UnknownIffEmpty ==
    (res.route = "scoreContract" /\ ~res.threw) =>
        ((res.riskLevel = "Unknown" /\ res.score = 0) <=> obs.codeRead = EmptyCode)

\* the level the thresholds give a score
LevelFor(score) ==
    CASE score >= 70 -> "High"
      [] score >= 30 /\ score < 70 -> "Medium"
      [] score < 30 -> "Low"

\* C20: for every score from 0 to 100 the level is High from 70, Medium
\* from 30 to 69 and Low below 30, and the levels the scoring calls return
\* follow the same thresholds.
C20_LevelBoundaries ==
    /\ res.route = "getRiskLevel" =>
          /\ res.level = LevelFor(obs.score)
          /\ obs.score = 30 => res.level = "Medium"
          /\ obs.score = 70 => res.level = "High"
          /\ obs.score = 29 => res.level = "Low"
          /\ obs.score = 69 => res.level = "Medium"
    /\ (Scored /\ res.riskLevel # "Unknown") =>
          res.riskLevel = LevelFor(ScoreOf(res))

\* the level of the boundary score 70 was computed
C20_Witness ==
    /\ res.route = "getRiskLevel"
    /\ obs.score = 70
    /\ res.level = "High"

\* C21: scoreWallet for an address with balance 0, no transactions and no
\* contract code returns score 80, level High and the factors "Zero
\* balance", "No transaction history", in that order and no others.
C21_NewEmptyWallet ==
    ( /\ res.route = "scoreWallet" /\ ~res.threw
      /\ res.details.balance = 0
      /\ res.details.transactionCount = 0
      /\ obs.contractRead = EmptyCode /\ obs.codeRead = EmptyCode )
    => /\ res.riskScore = 80
       /\ res.riskLevel = "High"
       /\ res.factors = <<"Zero balance", "No transaction history">>

\* C22: analyzeTransaction of a value above 1 native unit sent to an address
\* without code, with calldata "0x", returns score 20, level Low and
\* shouldProceed = true.
C22_PlainTransfer ==
    ( /\ res.route = "analyzeTransaction"
      /\ obs.value > 1000
      /\ isAddress(obs.address) /\ obs.toRead = EmptyCode
      /\ obs.data = EmptyData )
    => /\ ~res.threw
       /\ res.riskScore = 20
       /\ res.riskLevel = "Low"
       /\ res.shouldProceed

C22_Witness ==
    /\ res.route = "analyzeTransaction" /\ ~res.threw
    /\ obs.value = 1001
    /\ obs.address = ContractLower /\ obs.toRead = EmptyCode
    /\ obs.codeRead = Fail
    /\ obs.data = EmptyData
    /\ res.riskScore = 20

\* C27: the result of scoreWallet is determined by the address and the
\* chain facts the call observed (balance, transaction count, bytecode):
\* whatever else happens inside the call, the same result comes out.
C27_ScoreWalletDeterministic ==
    (res.route = "scoreWallet" /\ ~res.threw) =>
        \A k \in InteractionInputs :
            scoreWallet(obs.address, res.details.balance,
                        res.details.transactionCount, obs.contractRead,
                        obs.codeRead, k) = res

\* C23: validateDelegationParams reports every violated constraint: the
\* returned list has the message of a constraint exactly when that
\* constraint is violated, one entry each, so several violations at once
\* give several entries.
C23_ErrorsAccumulate ==
    res.route = "validateDelegationParams" =>
        LET badUser == ~isAddress(obs.user)
            badContract == ~isAddress(obs.contract)
            past == obs.expiresAt <= obs.now
            tooLong == obs.expiresAt > obs.now + MAX_DELEGATION_DURATION
            n(b) == IF b THEN 1 ELSE 0
        IN  /\ Includes(res.errors, "Invalid user address") <=> badUser
            /\ Includes(res.errors, "Invalid contract address") <=> badContract
            /\ Includes(res.errors, "Expiration must be in the future") <=> past
            /\ Includes(res.errors, "Delegation duration cannot exceed 30 days")
                   <=> tooLong
            /\ Len(res.errors) = n(badUser) + n(badContract) + n(past) + n(tooLong)

C23_Witness ==
    /\ res.route = "validateDelegationParams"
    /\ obs.user = NotAnAddress /\ obs.contract = NotAnAddress
    /\ obs.expiresAt = obs.now
    /\ Len(res.errors) = 3

\* C26: for every score in 0..100 the level functions of the backend
\* (riskScoring.getRiskLevel, helpers.getRiskLevel with RISK_THRESHOLDS,
\* and the risk route's getRiskLevel) return the same level.
C26_OneLevelFunction ==
    res.route = "riskLevels" =>
        /\ res.helpers = res.service
        /\ res.walletRoute = res.service

\* C28: retryAsync(fn, retries, delay) invokes fn at most retries + 1
\* times, only after a failure invokes it again, settles with the outcome
\* of the first successful invocation, sleeps delay, 2*delay, 4*delay, ...
\* between consecutive invocations, and rejects with the error of the last
\* invocation only when all retries + 1 invocations failed.
C28_RetryBackoff ==
    res.route = "retryAsync" =>
        LET n == res.calls
            attempts == obs.retries + 1
        IN  /\ n >= 1 /\ n <= attempts
            /\ \A i \in 1..(n - 1) : ~obs.fn[i].ok
            /\ res.settled = obs.fn[n]
            /\ ~res.settled.ok => n = attempts
            /\ (\E i \in 1..attempts : obs.fn[i].ok) => res.settled.ok
            /\ Len(res.sleeps) = n - 1
            /\ \A i \in 1..(n - 1) : res.sleeps[i] = obs.delay * 2 ^ (i - 1)

C28_Witness ==
    /\ res.route = "retryAsync"
    /\ obs.retries = MaxRetries /\ obs.delay = 1000
    /\ res.calls = 3 /\ res.settled.ok
    /\ res.sleeps = <<1000, 2000>>

\* C24: one addDelegation call and one revokeDelegation call each submit at
\* most one remote write, also when that write fails: at no point of a call
\* in progress, and in no finished call, has the write been submitted twice.
C24_AtMostOneWrite ==
    /\ \A i \in 1..Len(addCall) : addCall[i].writes <= 1
    /\ revokeCall.pc # "idle" => revokeCall.writes <= 1
    /\ res.route \in {"add", "revoke"} => obs.writes <= 1

C24_Witness ==
    /\ res.route = "add" /\ res.status = 200
    /\ obs.remote = "failed"
    /\ obs.writes = 1

\* C25: the record an add call creates has expiresAt = addedAt + duration in
\* seconds and isActive = true, in the local store and in the delegation
\* returned to the caller, whatever the clock does during the call.
C25_ExpiryFromAddedAt ==
    (res.route = "add" /\ res.status = 200) =>
        /\ res.delegation.expiresAt =
               res.delegation.addedAt + obs.duration * SecondsPerHour
        /\ MapHas(delegationsDB, obs.key) =>
               LET rec == MapGet(delegationsDB, obs.key)
               IN  /\ rec.expiresAt = rec.addedAt + obs.duration * SecondsPerHour
                   /\ rec.isActive

\* ------------------------------------------------------------ routes/dca.js
MaxPlans == 1        \* plans created per behaviour

TokenAddress == <<"B", "b">>

\* viem parseEther of a whole number of native units. Stored amounts are in
\* thousandths of a unit here (the code: 10^-18 of a unit).
parseEther(units) == units * 1000

\* viem formatEther: the decimal reading of a stored amount
formatEther(amount) == [units |-> amount \div 1000, frac |-> amount % 1000]

DcaUserInputs == {UserLower, NotAnAddress}
DcaAmountInputs == {0, 1, 2}
DcaMaxTotalInputs == {2, 3}
DcaIntervalInputs == {3600}
DcaIdInputs == 1..(MaxPlans + 1)
\* mockPrice of simulateDCAExecution (Math.random() * 0.1 + 0.01), in
\* thousandths
DcaPriceInputs == {10, 30}

\* number-valued fields: 0 is falsy
TruthyNumber(n) == n # 0

\* Number.prototype.toFixed(6) of the quotient num / den, in millionths
ToFixed6(num, den) ==
    LET x == num * 1000000
    IN  (x \div den) + (IF 2 * (x % den) >= den THEN 1 ELSE 0)

\* simulateDCAExecution: amountPerInterval and mockPrice are in thousandths,
\* the amount and the price returned are in millionths
simulateDCAExecution(dcaPlan, mockPrice) ==
    [amount |-> ToFixed6(dcaPlan.amountPerInterval, mockPrice),
     price |-> mockPrice * 1000]

DcaCreateResponse(dcaId, tokenAddress, dcaPlan, nextExecution) ==
    [route |-> "dcaCreate", status |-> 200, success |-> TRUE,
     dcaPlan |-> [id |-> dcaId, tokenAddress |-> tokenAddress,
                  amountPerInterval |-> formatEther(dcaPlan.amountPerInterval),
                  maxTotalAmount |-> formatEther(dcaPlan.maxTotalAmount),
                  nextExecution |-> nextExecution]]

\* POST /api/dca/create up to its await of write.createDCAPlan (line 80),
\* or to its response when contract or wallet are not set. The clock is
\* read for nextExecution (line 57) and again for createdAt (line 69).
DcaCreateStart(userAddress, tokenAddress, amountPerInterval, interval, maxTotalAmount, skew) ==
    /\ res = NoResponse
    /\ IF \/ ~Truthy(userAddress) \/ ~Truthy(tokenAddress)
          \/ ~TruthyNumber(amountPerInterval) \/ ~TruthyNumber(interval)
          \/ ~TruthyNumber(maxTotalAmount)
       THEN /\ skew = 0
            /\ res' = BadRequest("dcaCreate")
            /\ obs' = [route |-> "dcaCreate", stored |-> FALSE]
            /\ UNCHANGED <<dcaPlansDB, dcaIdCounter, pending, now, ticks>>
       ELSE IF ~isAddress(userAddress) \/ ~isAddress(tokenAddress)
       THEN /\ skew = 0
            /\ res' = BadRequest("dcaCreate")
            /\ obs' = [route |-> "dcaCreate", stored |-> FALSE]
            /\ UNCHANGED <<dcaPlansDB, dcaIdCounter, pending, now, ticks>>
       ELSE LET dcaId == dcaIdCounter
                nextExecution == now + interval
                dcaPlan == [id |-> dcaId, userAddress |-> userAddress,
                            tokenAddress |-> ToLowerCase(tokenAddress),
                            amountPerInterval |-> parseEther(amountPerInterval),
                            interval |-> interval,
                            maxTotalAmount |-> parseEther(maxTotalAmount),
                            totalSpent |-> 0,
                            nextExecution |-> nextExecution,
                            createdAt |-> now + skew, isActive |-> TRUE]
            IN  /\ dcaIdCounter <= MaxPlans
                /\ ticks + skew <= MaxTicks
                /\ now' = now + skew
                /\ ticks' = ticks + skew
                /\ dcaIdCounter' = dcaIdCounter + 1
                /\ dcaPlansDB' = MapSet(dcaPlansDB, dcaId, dcaPlan)
                /\ IF smartGuardContract /\ walletClient
                   THEN /\ Len(pending) < MaxPending
                        /\ pending' = Append(pending,
                               [route |-> "dcaCreate", pc |-> "write",
                                dcaId |-> dcaId, tokenAddress |-> tokenAddress,
                                nextExecution |-> nextExecution])
                        /\ UNCHANGED <<res, obs>>
                   ELSE /\ res' = DcaCreateResponse(dcaId, tokenAddress,
                                                    dcaPlan, nextExecution)
                        /\ obs' = [route |-> "dcaCreate", stored |-> TRUE,
                                   remote |-> "skipped"]
                        /\ UNCHANGED pending
    /\ UNCHANGED <<smartGuardContract, walletClient, rpcUp, delegationsDB,
                   revokeDelegationsDB, chain, addCall, revokeCall, listCall,
                   adds, revoked, knownThreats>>

\* smartGuardContract.write.createDCAPlan settles; a rejection is logged
\* and the answer is the same
DcaCreateWriteReturns(k) ==
    /\ res = NoResponse
    /\ pending[k].route = "dcaCreate"
    /\ LET f == pending[k]
       IN  /\ res' = DcaCreateResponse(f.dcaId, f.tokenAddress,
                                       MapGet(dcaPlansDB, f.dcaId),
                                       f.nextExecution)
           /\ obs' = [route |-> "dcaCreate", stored |-> TRUE,
                      remote |-> IF rpcUp THEN "ok" ELSE "failed"]
    /\ pending' = RemoveAt(pending, k)
    /\ UNCHANGED <<dcaPlansDB, dcaIdCounter>>
    /\ UNCHANGED <<now, ticks>>
    /\ UNCHANGED <<smartGuardContract, walletClient, rpcUp, delegationsDB,
                   revokeDelegationsDB, chain, addCall, revokeCall, listCall,
                   adds, revoked, knownThreats>>

\* line 220: if (!dcaPlan.isActive) return 400
DcaExecutable(dcaPlan) == dcaPlan.isActive

\* lines 231-237: the purchase is booked, the next one scheduled, and the
\* plan deactivated once totalSpent has reached maxTotalAmount
DcaBook(dcaPlan, t) ==
    LET spent == dcaPlan.totalSpent + dcaPlan.amountPerInterval
    IN  [dcaPlan EXCEPT !.totalSpent = spent,
                        !.nextExecution = t + dcaPlan.interval,
                        !.isActive = IF spent >= dcaPlan.maxTotalAmount
                                     THEN FALSE ELSE @]

\* POST /api/dca/execute/:dcaId up to `await simulateDCAExecution(dcaPlan)`
\* (line 228): the lookup, the activity check, and the synchronous body of
\* simulateDCAExecution, which draws mockPrice
DcaExecuteStart(dcaId, mockPrice) ==
    /\ res = NoResponse
    /\ IF ~MapHas(dcaPlansDB, dcaId)
       THEN /\ res' = [route |-> "dcaExecute", status |-> 404,
                       success |-> FALSE]
            /\ obs' = [route |-> "dcaExecute", dcaId |-> dcaId,
                       found |-> FALSE]
            /\ UNCHANGED pending
       ELSE LET dcaPlan == MapGet(dcaPlansDB, dcaId)
            IN  IF ~DcaExecutable(dcaPlan)
                THEN /\ res' = BadRequest("dcaExecute")
                     /\ obs' = [route |-> "dcaExecute", dcaId |-> dcaId,
                                found |-> TRUE, checked |-> dcaPlan]
                     /\ UNCHANGED pending
                ELSE /\ Len(pending) < MaxPending
                     /\ pending' = Append(pending,
                            [route |-> "dcaExecute", pc |-> "simulate",
                             dcaId |-> dcaId, contract |-> smartGuardContract,
                             swapResult |-> simulateDCAExecution(dcaPlan, mockPrice),
                             checked |-> dcaPlan, before |-> dcaPlan])
                     /\ UNCHANGED <<res, obs>>
    /\ UNCHANGED <<dcaPlansDB, dcaIdCounter>>
    /\ UNCHANGED <<now, ticks>>
    /\ UNCHANGED <<smartGuardContract, walletClient, rpcUp, delegationsDB,
                   revokeDelegationsDB, chain, addCall, revokeCall, listCall,
                   adds, revoked, knownThreats>>

\* lines 252-264: the answer reads amountPerInterval and nextExecution from
\* the plan object as it is when the answer is written
DcaExecuteResponse(f, dcaPlan) ==
    [route |-> "dcaExecute", status |-> 200, success |-> TRUE,
     execution |-> [dcaId |-> f.dcaId,
                    amountSpent |-> formatEther(dcaPlan.amountPerInterval),
                    tokenAmount |-> f.swapResult.amount,
                    price |-> f.swapResult.price,
                    nextExecution |-> dcaPlan.nextExecution]]

\* checked: the plan as the activity check of the call saw it; before: the
\* plan as it was when the call booked its purchase
DcaExecuteObs(f, remote) ==
    [route |-> "dcaExecute", dcaId |-> f.dcaId, found |-> TRUE,
     checked |-> f.checked, before |-> f.before, remote |-> remote]

\* the handler resumes after the await of line 228 and books the purchase
\* on the plan object as it is by then (lines 231-239); with a contract it
\* goes on to the await of write.executeDCA (line 244)
DcaExecuteSimulated(k) ==
    /\ res = NoResponse
    /\ pending[k].route = "dcaExecute"
    /\ pending[k].pc = "simulate"
    /\ LET f == pending[k]
           dcaPlan == MapGet(dcaPlansDB, f.dcaId)
           booked == DcaBook(dcaPlan, now)
           g == [f EXCEPT !.before = dcaPlan, !.pc = "write"]
       IN  /\ dcaPlansDB' = MapSet(dcaPlansDB, f.dcaId, booked)
           /\ IF f.contract
              THEN /\ pending' = [pending EXCEPT ![k] = g]
                   /\ UNCHANGED <<res, obs>>
              ELSE /\ res' = DcaExecuteResponse(g, booked)
                   /\ obs' = DcaExecuteObs(g, "skipped")
                   /\ pending' = RemoveAt(pending, k)
    /\ UNCHANGED dcaIdCounter
    /\ UNCHANGED <<now, ticks>>
    /\ UNCHANGED <<smartGuardContract, walletClient, rpcUp, delegationsDB,
                   revokeDelegationsDB, chain, addCall, revokeCall, listCall,
                   adds, revoked, knownThreats>>

\* smartGuardContract.write.executeDCA settles
DcaExecuteWriteReturns(k) ==
    /\ res = NoResponse
    /\ pending[k].route = "dcaExecute"
    /\ pending[k].pc = "write"
    /\ IF rpcUp
       THEN /\ pending' = [pending EXCEPT ![k].pc = "receipt"]
            /\ UNCHANGED <<res, obs>>
       ELSE /\ res' = DcaExecuteResponse(pending[k],
                                         MapGet(dcaPlansDB, pending[k].dcaId))
            /\ obs' = DcaExecuteObs(pending[k], "failed")
            /\ pending' = RemoveAt(pending, k)
    /\ UNCHANGED <<dcaPlansDB, dcaIdCounter>>
    /\ UNCHANGED <<now, ticks>>
    /\ UNCHANGED <<smartGuardContract, walletClient, rpcUp, delegationsDB,
                   revokeDelegationsDB, chain, addCall, revokeCall, listCall,
                   adds, revoked, knownThreats>>

\* publicClient.waitForTransactionReceipt settles
DcaExecuteReceiptReturns(k) ==
    /\ res = NoResponse
    /\ pending[k].route = "dcaExecute"
    /\ pending[k].pc = "receipt"
    /\ res' = DcaExecuteResponse(pending[k],
                                 MapGet(dcaPlansDB, pending[k].dcaId))
    /\ obs' = DcaExecuteObs(pending[k], IF rpcUp THEN "ok" ELSE "failed")
    /\ pending' = RemoveAt(pending, k)
    /\ UNCHANGED <<dcaPlansDB, dcaIdCounter>>
    /\ UNCHANGED <<now, ticks>>
    /\ UNCHANGED <<smartGuardContract, walletClient, rpcUp, delegationsDB,
                   revokeDelegationsDB, chain, addCall, revokeCall, listCall,
                   adds, revoked, knownThreats>>

\* POST /api/dca/cancel/:dcaId up to its await of write.cancelDCAPlan
\* (line 296), or to its response without a contract
DcaCancelStart(dcaId) ==
    /\ res = NoResponse
    /\ IF ~MapHas(dcaPlansDB, dcaId)
       THEN /\ res' = [route |-> "dcaCancel", status |-> 404,
                       success |-> FALSE]
            /\ obs' = [route |-> "dcaCancel", dcaId |-> dcaId,
                       found |-> FALSE]
            /\ UNCHANGED <<dcaPlansDB, pending>>
       ELSE LET dcaPlan == MapGet(dcaPlansDB, dcaId)
            IN  /\ dcaPlansDB' = MapSet(dcaPlansDB, dcaId,
                                        [dcaPlan EXCEPT !.isActive = FALSE])
                /\ IF smartGuardContract
                   THEN /\ Len(pending) < MaxPending
                        /\ pending' = Append(pending,
                               [route |-> "dcaCancel", pc |-> "write",
                                dcaId |-> dcaId])
                        /\ UNCHANGED <<res, obs>>
                   ELSE /\ res' = [route |-> "dcaCancel", status |-> 200,
                                   success |-> TRUE, dcaId |-> dcaId]
                        /\ obs' = [route |-> "dcaCancel", dcaId |-> dcaId,
                                   found |-> TRUE, remote |-> "skipped"]
                        /\ UNCHANGED pending
    /\ UNCHANGED dcaIdCounter
    /\ UNCHANGED <<now, ticks>>
    /\ UNCHANGED <<smartGuardContract, walletClient, rpcUp, delegationsDB,
                   revokeDelegationsDB, chain, addCall, revokeCall, listCall,
                   adds, revoked, knownThreats>>

\* smartGuardContract.write.cancelDCAPlan settles
DcaCancelWriteReturns(k) ==
    /\ res = NoResponse
    /\ pending[k].route = "dcaCancel"
    /\ res' = [route |-> "dcaCancel", status |-> 200, success |-> TRUE,
               dcaId |-> pending[k].dcaId]
    /\ obs' = [route |-> "dcaCancel", dcaId |-> pending[k].dcaId,
               found |-> TRUE, remote |-> IF rpcUp THEN "ok" ELSE "failed"]
    /\ pending' = RemoveAt(pending, k)
    /\ UNCHANGED <<dcaPlansDB, dcaIdCounter>>
    /\ UNCHANGED <<now, ticks>>
    /\ UNCHANGED <<smartGuardContract, walletClient, rpcUp, delegationsDB,
                   revokeDelegationsDB, chain, addCall, revokeCall, listCall,
                   adds, revoked, knownThreats>>

NextDca ==
    \/ \E d \in TickInputs : Tick(d)
    \/ SetContracts
    \/ RpcToggle
    \/ Deliver
    \/ \E u \in DcaUserInputs, a \in DcaAmountInputs, i \in DcaIntervalInputs,
          m \in DcaMaxTotalInputs, k \in SkewInputs :
              DcaCreateStart(u, TokenAddress, a, i, m, k)
    \/ \E k \in 1..Len(pending) : DcaCreateWriteReturns(k)
    \/ \E id \in DcaIdInputs, p \in DcaPriceInputs : DcaExecuteStart(id, p)
    \/ \E k \in 1..Len(pending) : DcaExecuteSimulated(k)
    \/ \E k \in 1..Len(pending) : DcaExecuteWriteReturns(k)
    \/ \E k \in 1..Len(pending) : DcaExecuteReceiptReturns(k)
    \/ \E id \in DcaIdInputs : DcaCancelStart(id)
    \/ \E k \in 1..Len(pending) : DcaCancelWriteReturns(k)

SpecDca == Init /\ [][NextDca]_vars

Plans == {dcaPlansDB[i].val : i \in 1..Len(dcaPlansDB)}

\* C29: a plan that is inactive (cancelled, or deactivated on reaching
\* maxTotalAmount) is never executed again: an execute request whose
\* activity check finds it inactive is answered 400, and every purchase an
\* execute request books is booked on a plan that is active at that moment.
C29_InactiveIsFinal ==
    /\ ( /\ res.route = "dcaExecute" /\ obs.found
         /\ ~obs.checked.isActive ) => res.status = 400
    /\ (res.route = "dcaExecute" /\ res.status = 200) => obs.before.isActive
    /\ \A k \in 1..Len(pending) :
          ( /\ pending[k].route = "dcaExecute"
            /\ pending[k].pc \in {"write", "receipt"} )
          => pending[k].before.isActive

\* C30: after any sequence of execute requests the totalSpent of a plan is
\* at most its maxTotalAmount.
C30_SpentWithinMax ==
    \A plan \in Plans : plan.totalSpent <= plan.maxTotalAmount
====
